---- MODULE Spec2Model ----
(***************************************************************************)
(* Voice command dispatch of the network-device dashboard:                 *)
(*   web/static/js/voice-interface.js  (VoiceInterface, exact-phrase table)*)
(*   web/static/js/voice-commands.js   (VoiceCommands, pattern grammar,    *)
(*                                      context stack)                     *)
(*   web/static/js/dashboard.js        (showSection, runInvestigation)     *)
(*                                                                         *)
(* A JavaScript string is a tuple of one-character strings, so that        *)
(* String.includes and RegExp matching are computed character by           *)
(* character.  A template literal is the concatenation of its parts.       *)
(***************************************************************************)
EXTENDS Integers, Sequences, FiniteSets, TLC

\* JavaScript `undefined` (an unmatched capture group, a missing argument).
Undefined == <<"undefined">>

\* JavaScript truthiness of a string-or-undefined value.
Truthy(x) == x # Undefined /\ x # << >>

(***************************************************************************)
(* Regular expressions.  A pattern is a tree of nodes; Run is a            *)
(* backtracking matcher with the priorities of the JavaScript engine:      *)
(* alternatives left to right, greedy quantifiers longest first, lazy      *)
(* quantifiers shortest first, the leftmost start position wins.           *)
(***************************************************************************)
Lit(s)      == [op |-> "lit", s |-> s]
Cat(rs)     == [op |-> "seq", rs |-> rs]
Alt(rs)     == [op |-> "alt", rs |-> rs]
Opt(r)      == [op |-> "opt", r |-> r]
Grp(n, r)   == [op |-> "grp", n |-> n, r |-> r]
Rep(c, m, z) == [op |-> "rep", cls |-> c, min |-> m, lazy |-> z]
Eol         == [op |-> "eol"]

WS       == Rep("s", 1, FALSE)   \* \s+
WS0      == Rep("s", 0, FALSE)   \* \s*
Digits   == Rep("d", 1, FALSE)   \* \d+
Rest     == Rep(".", 1, FALSE)   \* .+
Least    == Rep(".", 1, TRUE)    \* .+?

DigitChars == {"0","1","2","3","4","5","6","7","8","9"}

InClass(c, cls) ==
    CASE cls = "s" -> c = " "
      [] cls = "d" -> c \in DigitChars
      [] OTHER     -> c # "\n"

\* number of consecutive characters of class cls in s after position i
RECURSIVE RunLength(_, _, _)
RunLength(s, i, cls) ==
    IF i < Len(s) /\ InClass(s[i + 1], cls)
    THEN 1 + RunLength(s, i + 1, cls)
    ELSE 0

NoCaptures == [k \in 1..4 |-> Undefined]
Fail == [ok |-> FALSE]

RECURSIVE Run(_, _, _, _)
RECURSIVE TryAlts(_, _, _, _, _)
RECURSIVE TryLens(_, _, _, _, _)

\* todo: the nodes still to match, i: characters consumed so far
Run(s, todo, i, caps) ==
    IF todo = << >>
    THEN [ok |-> TRUE, end |-> i, caps |-> caps]
    ELSE LET r    == Head(todo)
             rest == Tail(todo)
         IN CASE r.op = "lit" ->
                   IF i + Len(r.s) <= Len(s) /\ SubSeq(s, i + 1, i + Len(r.s)) = r.s
                   THEN Run(s, rest, i + Len(r.s), caps)
                   ELSE Fail
              [] r.op = "seq" -> Run(s, r.rs \o rest, i, caps)
              [] r.op = "alt" -> TryAlts(s, r.rs, rest, i, caps)
              [] r.op = "opt" ->
                   LET a == Run(s, <<r.r>> \o rest, i, caps)
                   IN IF a.ok THEN a ELSE Run(s, rest, i, caps)
              [] r.op = "rep" ->
                   LET n == RunLength(s, i, r.cls)
                       lens == IF r.lazy
                               THEN [k \in 1..(n - r.min + 1) |-> r.min + k - 1]
                               ELSE [k \in 1..(n - r.min + 1) |-> n - k + 1]
                   IN TryLens(s, lens, rest, i, caps)
              [] r.op = "grp" ->
                   Run(s, <<r.r, [op |-> "end", n |-> r.n, from |-> i]>> \o rest, i, caps)
              [] r.op = "end" ->
                   Run(s, rest, i, [caps EXCEPT ![r.n] = SubSeq(s, r.from + 1, i)])
              [] r.op = "eol" ->
                   IF i = Len(s) THEN Run(s, rest, i, caps) ELSE Fail

TryAlts(s, alts, rest, i, caps) ==
    IF alts = << >> THEN Fail
    ELSE LET a == Run(s, <<Head(alts)>> \o rest, i, caps)
         IN IF a.ok THEN a ELSE TryAlts(s, Tail(alts), rest, i, caps)

TryLens(s, lens, rest, i, caps) ==
    IF lens = << >> THEN Fail
    ELSE LET a == Run(s, rest, i + Head(lens), caps)
         IN IF a.ok THEN a ELSE TryLens(s, Tail(lens), rest, i, caps)

RECURSIVE MatchFrom(_, _, _)
MatchFrom(s, re, i) ==
    IF i > Len(s) THEN Fail
    ELSE LET a == Run(s, <<re>>, i, NoCaptures)
         IN IF a.ok
            THEN [ok |-> TRUE, whole |-> SubSeq(s, i + 1, a.end), g |-> a.caps, input |-> s]
            ELSE MatchFrom(s, re, i + 1)

\* String.prototype.match with a non-global RegExp
Match(s, re) == MatchFrom(s, re, 0)

\* String.prototype.includes
Includes(s, t) ==
    \E i \in 0..(Len(s) - Len(t)) : SubSeq(s, i + 1, i + Len(t)) = t

(***************************************************************************)
(* The pattern grammar of setupAdvancedCommands, in registration order.    *)
(***************************************************************************)
BrandAlt ==
    Alt(<< Lit(<<"b","w","w">>), Lit(<<"b","u","f","f","a","l","o"," ","w","i","l","d"," ","w","i","n","g","s">>),
           Cat(<<Lit(<<"a","r","b","y">>), Opt(Lit(<<"s">>))>>),
           Cat(<<Lit(<<"a","r","b","y">>), Opt(Lit(<<"'">>)), Lit(<<"s">>)>>),
           Lit(<<"s","o","n","i","c">>) >>)

StoreInvestigationPattern ==
    Cat(<< Lit(<<"i","n","v","e","s","t","i","g","a","t","e">>), WS, Grp(1, BrandAlt), WS, Lit(<<"s","t","o","r","e">>), WS,
           Grp(2, Digits), WS0,
           Opt(Cat(<<Lit(<<"f","o","r">>), WS, Grp(3, Rest)>>)) >>)

LogSearchPattern ==
    Cat(<< Lit(<<"s","e","a","r","c","h">>), WS, Opt(Cat(<<Lit(<<"f","o","r">>), WS>>)), Grp(1, Least),
           Opt(Cat(<<WS, Lit(<<"i","n">>), WS, Grp(2, Least)>>)),
           Opt(Cat(<<WS, Lit(<<"f","r","o","m">>), WS, Grp(3, Least)>>)),
           Opt(Cat(<<WS, Lit(<<"i","n">>), WS, Lit(<<"t","h","e">>), WS, Lit(<<"l","a","s","t">>), WS, Grp(4, Rest)>>)) >>)

SecurityEventsPattern ==
    Cat(<< Lit(<<"s","h","o","w">>), WS, Opt(Cat(<<Lit(<<"m","e">>), WS>>)), Opt(Cat(<<Lit(<<"t","h","e">>), WS>>)),
           Grp(1, Alt(<<Lit(<<"c","r","i","t","i","c","a","l">>), Lit(<<"h","i","g","h">>), Lit(<<"m","e","d","i","u","m">>), Lit(<<"l","o","w">>)>>)), WS,
           Opt(Cat(<<Lit(<<"s","e","c","u","r","i","t","y">>), WS>>)),
           Alt(<<Lit(<<"e","v","e","n","t","s">>), Lit(<<"a","l","e","r","t","s">>)>>),
           Opt(Cat(<<WS, Lit(<<"f","o","r">>), WS, Grp(2, Least)>>)) >>)

ThreatIntelligencePattern ==
    Cat(<< Lit(<<"s","h","o","w">>), WS, Opt(Cat(<<Lit(<<"m","e">>), WS>>)), Lit(<<"t","h","r","e","a","t">>), WS,
           Lit(<<"i","n","t","e","l","l","i","g","e","n","c","e">>), WS, Lit(<<"f","o","r">>), WS, Grp(1, BrandAlt),
           Opt(Cat(<<WS, Lit(<<"i","n">>), WS, Lit(<<"t","h","e">>), WS, Lit(<<"l","a","s","t">>), WS, Grp(2, Rest)>>)) >>)

WebFilterStatusPattern ==
    Cat(<< Alt(<<Lit(<<"c","h","e","c","k">>), Lit(<<"s","h","o","w">>)>>), WS, Lit(<<"w","e","b">>), WS, Lit(<<"f","i","l","t","e","r">>), WS,
           Alt(<<Lit(<<"s","t","a","t","u","s">>), Lit(<<"p","o","l","i","c","i","e","s">>)>>), WS, Lit(<<"f","o","r">>), WS, Grp(1, BrandAlt),
           Opt(Cat(<<WS, Lit(<<"s","t","o","r","e">>), WS, Grp(2, Digits)>>)) >>)

SystemStatusPattern ==
    Cat(<< Alt(<< Lit(<<"c","h","e","c","k">>),
                  Cat(<<Lit(<<"w","h","a","t">>), WS, Lit(<<"i","s">>), WS, Lit(<<"t","h","e">>)>>),
                  Cat(<<Lit(<<"s","h","o","w">>), WS, Lit(<<"m","e">>), WS, Lit(<<"t","h","e">>)>>) >>), WS,
           Opt(Cat(<<Lit(<<"o","v","e","r","a","l","l">>), WS>>)), Opt(Cat(<<Lit(<<"s","e","c","u","r","i","t","y">>), WS>>)),
           Lit(<<"s","t","a","t","u","s">>),
           Opt(Cat(<<WS, Lit(<<"o","f">>), WS, Grp(1, Least)>>)) >>)

ReportGenerationPattern ==
    Cat(<< Lit(<<"g","e","n","e","r","a","t","e">>), WS, Opt(Cat(<<Lit(<<"a">>), WS>>)),
           Opt(Cat(<< Grp(1, Alt(<<Lit(<<"s","e","c","u","r","i","t","y">>), Lit(<<"t","h","r","e","a","t">>), Lit(<<"c","o","m","p","l","i","a","n","c","e">>),
                                   Lit(<<"e","x","e","c","u","t","i","v","e">>)>>)), WS >>)),
           Lit(<<"r","e","p","o","r","t">>), WS, Lit(<<"f","o","r">>), WS, Grp(2, BrandAlt),
           Opt(Cat(<<WS, Lit(<<"s","t","o","r","e">>), WS, Grp(3, Digits)>>)),
           Opt(Cat(<<WS, Lit(<<"f","o","r">>), WS, Lit(<<"t","h","e">>), WS, Lit(<<"l","a","s","t">>), WS, Grp(4, Rest)>>)) >>)

ShowMorePattern ==
    Cat(<< Opt(Cat(<<Lit(<<"s","h","o","w">>), WS, Lit(<<"m","e">>), WS>>)), Opt(Cat(<<Lit(<<"m","o","r","e">>), WS>>)),
           Alt(<<Lit(<<"d","e","t","a","i","l","s">>), Lit(<<"i","n","f","o","r","m","a","t","i","o","n">>), Lit(<<"d","a","t","a">>)>>) >>)

GoBackPattern == Cat(<<Lit(<<"g","o">>), WS, Lit(<<"b","a","c","k">>)>>)

EmergencyPattern ==
    Cat(<< Alt(<<Lit(<<"a","l","e","r","t">>), Lit(<<"e","m","e","r","g","e","n","c","y">>), Lit(<<"u","r","g","e","n","t">>), Lit(<<"c","r","i","t","i","c","a","l">>)>>),
           WS0, Opt(Lit(<<":">>)), WS0, Grp(1, Rest) >>)

BulkOperationPattern ==
    Cat(<< Alt(<<Lit(<<"c","h","e","c","k">>), Lit(<<"i","n","v","e","s","t","i","g","a","t","e">>), Lit(<<"a","n","a","l","y","z","e">>)>>), WS, Lit(<<"a","l","l">>), WS,
           Grp(1, Alt(<<Lit(<<"s","t","o","r","e","s">>), Lit(<<"l","o","c","a","t","i","o","n","s">>), Lit(<<"s","i","t","e","s">>)>>)),
           Opt(Cat(<<WS, Lit(<<"f","o","r">>), WS, Grp(2, Least)>>)) >>)

\* voiceInterface.commandPatterns after setupAdvancedCommands
commandPatterns ==
    << [pattern |-> StoreInvestigationPattern, handler |-> "handleStoreInvestigation"],
       [pattern |-> LogSearchPattern,          handler |-> "handleAdvancedLogSearch"],
       [pattern |-> SecurityEventsPattern,     handler |-> "handleSecurityEvents"],
       [pattern |-> ThreatIntelligencePattern, handler |-> "handleThreatIntelligence"],
       [pattern |-> WebFilterStatusPattern,    handler |-> "handleWebFilterStatus"],
       [pattern |-> SystemStatusPattern,       handler |-> "handleSystemStatus"],
       [pattern |-> ReportGenerationPattern,   handler |-> "handleReportGeneration"],
       [pattern |-> ShowMorePattern,           handler |-> "handleShowMore"],
       [pattern |-> GoBackPattern,             handler |-> "handleGoBack"],
       [pattern |-> EmergencyPattern,          handler |-> "handleEmergencyCommand"],
       [pattern |-> BulkOperationPattern,      handler |-> "handleBulkOperation"] >>

\* the two fallback extractors of the original processVoiceCommand
StoreInvestigationMatch ==
    Cat(<< Lit(<<"i","n","v","e","s","t","i","g","a","t","e">>), WS, Grp(1, BrandAlt), WS, Lit(<<"s","t","o","r","e">>), WS, Grp(2, Digits) >>)

LogSearchMatch ==
    Cat(<< Lit(<<"s","e","a","r","c","h">>), WS, Opt(Cat(<<Lit(<<"f","o","r">>), WS>>)), Grp(1, Least),
           Opt(Cat(<<WS, Lit(<<"i","n">>), WS, Grp(2, Least)>>)), Eol >>)

(***************************************************************************)
(* String helpers.                                                         *)
(***************************************************************************)
LowerLetters == <<"a","b","c","d","e","f","g","h","i","j","k","l","m","n","o","p","q","r","s","t","u","v","w","x","y","z">>
UpperLetters == <<"A","B","C","D","E","F","G","H","I","J","K","L","M","N","O","P","Q","R","S","T","U","V","W","X","Y","Z">>

UpperChar(c) ==
    IF \E k \in 1..26 : LowerLetters[k] = c
    THEN UpperLetters[CHOOSE k \in 1..26 : LowerLetters[k] = c]
    ELSE c

LowerChar(c) ==
    IF \E k \in 1..26 : UpperLetters[k] = c
    THEN LowerLetters[CHOOSE k \in 1..26 : UpperLetters[k] = c]
    ELSE c

ToUpperCase(s) == [k \in 1..Len(s) |-> UpperChar(s[k])]
ToLowerCase(s) == [k \in 1..Len(s) |-> LowerChar(s[k])]

\* String.prototype.replace('-', ' '): the first hyphen only
ReplaceHyphen(s) ==
    IF \E k \in 1..Len(s) : s[k] = "-"
    THEN LET p == CHOOSE k \in 1..Len(s) : s[k] = "-" /\ \A j \in 1..(k - 1) : s[j] # "-"
         IN [k \in 1..Len(s) |-> IF k = p THEN " " ELSE s[k]]
    ELSE s

\* The members an object literal inherits from Object.prototype under a name
\* that a lower-cased, trimmed transcript of spoken words can be.
InheritedMembers == { <<"c","o","n","s","t","r","u","c","t","o","r">> }

\* Object.prototype.constructor, a truthy value
ObjectFunction == <<"function Object() { [native code] }">>

\* own[key] for the own properties of an object literal, a list of <<key, value>>
RECURSIVE OwnLookup(_, _, _)
OwnLookup(map, key, fallback) ==
    IF map = << >> THEN fallback
    ELSE IF Head(map)[1] = key THEN Head(map)[2]
    ELSE OwnLookup(Tail(map), key, fallback)

\* obj[key] || fallback
Lookup(map, key, fallback) ==
    OwnLookup(map, key, IF key \in InheritedMembers THEN ObjectFunction ELSE fallback)

(***************************************************************************)
(* Utility functions of VoiceCommands (VoiceInterface has the same ones).  *)
(***************************************************************************)
brandMap ==
    << <<<<"b","w","w">>, <<"B","W","W">>>>,
       <<<<"b","u","f","f","a","l","o"," ","w","i","l","d"," ","w","i","n","g","s">>, <<"B","W","W">>>>,
       <<<<"a","r","b","y","s">>, <<"A","R","B","Y","S">>>>,
       <<<<"a","r","b","y","'","s">>, <<"A","R","B","Y","S">>>>,
       <<<<"s","o","n","i","c">>, <<"S","O","N","I","C">>>> >>

\* what a call is left with when it throws a TypeError
TypeError == <<"TypeError">>

\* the values that have the methods of a string
IsString(x) == x \notin {Undefined, ObjectFunction, TypeError}

\* brandInput.toLowerCase is not a function unless brandInput is a string
normalizeBrandName(brandInput) ==
    IF ~IsString(brandInput) THEN TypeError
    ELSE Lookup(brandMap, ToLowerCase(brandInput), ToUpperCase(brandInput))

\* the copy of VoiceInterface
VoiceInterface_brandMap ==
    << <<<<"b","w","w">>, <<"B","W","W">>>>,
       <<<<"b","u","f","f","a","l","o"," ","w","i","l","d"," ","w","i","n","g","s">>, <<"B","W","W">>>>,
       <<<<"a","r","b","y","s">>, <<"A","R","B","Y","S">>>>,
       <<<<"a","r","b","y","'","s">>, <<"A","R","B","Y","S">>>>,
       <<<<"s","o","n","i","c">>, <<"S","O","N","I","C">>>> >>

VoiceInterface_normalizeBrandName(brandInput) ==
    IF ~IsString(brandInput) THEN TypeError
    ELSE Lookup(VoiceInterface_brandMap, ToLowerCase(brandInput), ToUpperCase(brandInput))

brandNames ==
    << <<<<"B","W","W">>, <<"B","u","f","f","a","l","o"," ","W","i","l","d"," ","W","i","n","g","s">>>>,
       <<<<"A","R","B","Y","S">>, <<"A","r","b","y","'","s">>>>,
       <<<<"S","O","N","I","C">>, <<"S","o","n","i","c"," ","D","r","i","v","e","-","I","n">>>> >>

getBrandDisplayName(brandCode) == Lookup(brandNames, brandCode, brandCode)

timeMap ==
    << <<<<"h","o","u","r">>, <<"1","h">>>>,
       <<<<"l","a","s","t"," ","h","o","u","r">>, <<"1","h">>>>,
       <<<<"d","a","y">>, <<"2","4","h">>>>,
       <<<<"l","a","s","t"," ","d","a","y">>, <<"2","4","h">>>>,
       <<<<"2","4"," ","h","o","u","r","s">>, <<"2","4","h">>>>,
       <<<<"w","e","e","k">>, <<"7","d">>>>,
       <<<<"l","a","s","t"," ","w","e","e","k">>, <<"7","d">>>>,
       <<<<"m","o","n","t","h">>, <<"3","0","d">>>>,
       <<<<"l","a","s","t"," ","m","o","n","t","h">>, <<"3","0","d">>>> >>

\* returns Undefined for JavaScript null
parseTimeframe(timeInput) ==
    IF ~Truthy(timeInput) THEN Undefined
    ELSE Lookup(timeMap, ToLowerCase(timeInput), timeInput)

\* a || b
OrElse(a, b) == IF Truthy(a) THEN a ELSE b

inferTimeframeFromFocus(focus) ==
    IF Includes(focus, <<"r","e","c","e","n","t">>) \/ Includes(focus, <<"c","u","r","r","e","n","t">>) THEN <<"1","h">>
    ELSE IF Includes(focus, <<"t","o","d","a","y">>) THEN <<"2","4","h">>
    ELSE IF Includes(focus, <<"w","e","e","k">>) THEN <<"7","d">>
    ELSE IF Includes(focus, <<"m","o","n","t","h">>) THEN <<"3","0","d">>
    ELSE <<"2","4","h">>

(***************************************************************************)
(* The page: section ids and the input fields the handlers fill.           *)
(***************************************************************************)
Overview      == <<"o","v","e","r","v","i","e","w">>
Investigation == <<"i","n","v","e","s","t","i","g","a","t","i","o","n">>
FortiAnalyzer == <<"f","o","r","t","i","a","n","a","l","y","z","e","r">>
WebFilters    == <<"w","e","b","f","i","l","t","e","r","s">>
LogAnalysis   == <<"l","o","g","-","a","n","a","l","y","s","i","s">>
FortiManager  == <<"f","o","r","t","i","m","a","n","a","g","e","r">>
BrandBWW      == <<"b","r","a","n","d","-","B","W","W">>
BrandARBYS    == <<"b","r","a","n","d","-","A","R","B","Y","S">>
BrandSONIC    == <<"b","r","a","n","d","-","S","O","N","I","C">>

\* the elements document.getElementById finds for a section id
PageSections ==
    {Overview, Investigation, FortiAnalyzer, WebFilters, LogAnalysis, FortiManager,
     BrandBWW, BrandARBYS, BrandSONIC}

FieldIds ==
    {"investigationBrand", "investigationStore", "investigationPeriod",
     "logSearchQuery", "logSearchTimeframe", "logSearchBrand", "logSearchSource",
     "webfilterBrand", "webfilterStoreId"}

(***************************************************************************)
(* The state the operations work on, as one record s:                      *)
(*   isEnabled, connectionStatus, currentSection, fields,                  *)
(*   contextStack, activeInvestigation, now, timers,                       *)
(* and what the current step has done so far:                              *)
(*   invoked (handlers and table actions called), spoken (speak calls),    *)
(*   issued (data calls started).                                          *)
(***************************************************************************)
\* a call speak(text, options): rate and volume are "default" when the
\* options do not hold them
Msg(text, args) == [msg |-> text, parts |-> args, rate |-> "default", volume |-> "default"]

\* VoiceInterface.speak
speak(s, text, args) == [s EXCEPT !.spoken = Append(@, Msg(text, args))]

speakRate(s, text, args, rate) ==
    [s EXCEPT !.spoken = Append(@, [Msg(text, args) EXCEPT !.rate = rate])]

speakVolume(s, text, args, volume) ==
    [s EXCEPT !.spoken = Append(@, [Msg(text, args) EXCEPT !.volume = volume])]

\* await apiCall(path): the request leaves; the caller continues at `then`
\* with its local variables `locals` once the call has come back
awaitApiCall(s, path, args, then, locals) ==
    [s EXCEPT !.issued =
         Append(@, [api |-> path, parts |-> args, then |-> then, vars |-> locals])]

\* apiCall / fetch whose return this model does not follow: the request leaves
apiCall(s, path, args) == awaitApiCall(s, path, args, "", << >>)

\* setTimeout(callback, delay); args are the variables the closure captured
setTimeout(s, cb, args, delay) ==
    [s EXCEPT !.timers = Append(@, [cb |-> cb, delay |-> delay, vars |-> args])]

setField(s, id, value) == [s EXCEPT !.fields[id] = value]

\* the call log: fn(args...) was entered
called(s, name, args) == [s EXCEPT !.invoked = Append(@, [fn |-> name, args |-> args])]

announceNavigationChange(s, sectionName) ==
    IF s.isEnabled
    THEN speak(s, "Now viewing %1 section", <<ReplaceHyphen(sectionName)>>)
    ELSE s

announceLoading(s, text) ==
    IF s.isEnabled THEN speak(s, text, << >>) ELSE s

\* showLoading(true, text)
showLoading(s, text) == announceLoading(s, text)

\* showToast(message, type): only error and success toasts are announced
showToast(s, message, type) ==
    IF s.isEnabled /\ type \in {"error", "success"} THEN speak(s, message, << >>) ELSE s

\* the part of each loader that runs before its first await
loadOverviewData(s)      == apiCall(showLoading(s, "Processing..."), "/api/brands", << >>)
loadFortiAnalyzerData(s) ==
    apiCall(showLoading(s, "Loading FortiAnalyzer data..."), "/api/fortianalyzer/instances", << >>)
loadWebFiltersData(s)    ==
    apiCall(showLoading(s, "Loading Web Filters data..."), "/api/webfilters/status", << >>)
loadFortiManagerData(s)  == apiCall(showLoading(s, "Processing..."), "/api/fortimanager", << >>)
loadBrandData(s, brandCode) ==
    apiCall(showLoading(s, "Processing..."), "/api/brands/%1/overview", <<brandCode>>)

StartsWithBrand(sectionId) == Len(sectionId) >= 6 /\ SubSeq(sectionId, 1, 6) = <<"b","r","a","n","d","-">>

loadSectionData(s, sectionId) ==
    CASE sectionId = Overview      -> loadOverviewData(s)
      [] sectionId = FortiAnalyzer -> loadFortiAnalyzerData(s)
      [] sectionId = WebFilters    -> loadWebFiltersData(s)
      [] sectionId = LogAnalysis   -> s
      [] sectionId = FortiManager  -> loadFortiManagerData(s)
      [] OTHER ->
           IF StartsWithBrand(sectionId)
           THEN loadBrandData(s, SubSeq(sectionId, 7, Len(sectionId)))
           ELSE s

showSection(s, sectionId) ==
    IF sectionId \in PageSections
    THEN loadSectionData(
             announceNavigationChange([s EXCEPT !.currentSection = sectionId], sectionId),
             sectionId)
    ELSE s

(***************************************************************************)
(* Context management.                                                     *)
(***************************************************************************)
\* "Limit context stack size"
ContextLimit == 10

\* pushContext without the size limit
pushContextUnbounded(s, type, data) ==
    [s EXCEPT !.contextStack =
         Append(@, [type |-> type, data |-> data, timestamp |-> s.now])]

\* pushContext that makes room by dropping the entry after the oldest one
pushContextDropsSecond(s, type, data) ==
    LET pushed == Append(s.contextStack, [type |-> type, data |-> data, timestamp |-> s.now])
    IN [s EXCEPT !.contextStack = IF Len(pushed) > ContextLimit
                                  THEN <<Head(pushed)>> \o Tail(Tail(pushed))
                                  ELSE pushed]

pushContext(s, type, data) ==
    LET pushed == Append(s.contextStack, [type |-> type, data |-> data, timestamp |-> s.now])
    IN [s EXCEPT !.contextStack = IF Len(pushed) > ContextLimit THEN Tail(pushed) ELSE pushed]

\* an empty tuple stands for null
getCurrentContext(s) ==
    IF s.contextStack = << >> THEN << >> ELSE <<s.contextStack[Len(s.contextStack)]>>

\* restoreContext that writes the store id into the brand field and the brand
\* into the store field
restoreContextSwapsFields(s, context) ==
    IF context = << >> THEN s
    ELSE LET c == context[1]
         IN CASE c.type = "investigation" ->
                   LET s1 == showSection(s, Investigation)
                       s2 == IF Truthy(c.data.brand)
                             THEN setField(s1, "investigationStore", c.data.brand) ELSE s1
                   IN IF Truthy(c.data.storeId)
                      THEN setField(s2, "investigationBrand", c.data.storeId) ELSE s2
              [] c.type = "log-search" ->
                   LET s1 == showSection(s, LogAnalysis)
                   IN IF Truthy(c.data.query)
                      THEN setField(s1, "logSearchQuery", c.data.query) ELSE s1
              [] OTHER -> s

\* restoreContext that also starts the creating intent's work again
restoreContextRerunsIntent(s, context) ==
    IF context = << >> THEN s
    ELSE LET c == context[1]
         IN CASE c.type = "investigation" ->
                   LET s1 == showSection(s, Investigation)
                       s2 == IF Truthy(c.data.brand)
                             THEN setField(s1, "investigationBrand", c.data.brand) ELSE s1
                       s3 == IF Truthy(c.data.storeId)
                             THEN setField(s2, "investigationStore", c.data.storeId) ELSE s2
                   IN setTimeout(s3, "runInvestigation", << >>, 1000)
              [] c.type = "log-search" ->
                   LET s1 == showSection(s, LogAnalysis)
                       s2 == IF Truthy(c.data.query)
                             THEN setField(s1, "logSearchQuery", c.data.query) ELSE s1
                   IN setTimeout(s2, "searchLogs", << >>, 500)
              [] OTHER -> s

restoreContext(s, context) ==
    IF context = << >> THEN s
    ELSE LET c == context[1]
         IN CASE c.type = "investigation" ->
                   LET s1 == showSection(s, Investigation)
                       s2 == IF Truthy(c.data.brand)
                             THEN setField(s1, "investigationBrand", c.data.brand) ELSE s1
                   IN IF Truthy(c.data.storeId)
                      THEN setField(s2, "investigationStore", c.data.storeId) ELSE s2
              [] c.type = "log-search" ->
                   LET s1 == showSection(s, LogAnalysis)
                   IN IF Truthy(c.data.query)
                      THEN setField(s1, "logSearchQuery", c.data.query) ELSE s1
              [] OTHER -> s

(***************************************************************************)
(* Intent handlers of VoiceCommands.  m is the match array: m.g[k] is      *)
(* capture group k.  An optional part of a message is written in           *)
(* brackets in the message text and is absent when its part is Undefined.  *)
(***************************************************************************)
Present(x) == IF Truthy(x) THEN x ELSE Undefined

\* handleStoreInvestigation without the two assignments to the page fields
handleStoreInvestigationLeavesFields(s0, m) ==
    LET brand   == normalizeBrandName(m.g[1])
        storeId == m.g[2]
        focus   == m.g[3]
        data    == [brand |-> brand, storeId |-> storeId, focus |-> focus]
        s1 == [called(s0, "handleStoreInvestigation", m.g) EXCEPT !.activeInvestigation = <<data>>]
        s2 == pushContext(s1, "investigation", data)
        s3 == speak(s2, "Investigating ${brand} store ${storeId}[ focusing on ${focus}]",
                    <<getBrandDisplayName(brand), storeId, Present(focus)>>)
        s4 == showSection(s3, Investigation)
    IN setTimeout(s4, "runInvestigation; announceInvestigationResults", <<brand, storeId>>, 1000)

handleStoreInvestigation(s0, m) ==
    LET brand   == normalizeBrandName(m.g[1])
        storeId == m.g[2]
        focus   == m.g[3]
        data    == [brand |-> brand, storeId |-> storeId, focus |-> focus]
        s1 == [called(s0, "handleStoreInvestigation", m.g) EXCEPT !.activeInvestigation = <<data>>]
        s2 == pushContext(s1, "investigation", data)
        s3 == speak(s2, "Investigating ${brand} store ${storeId}[ focusing on ${focus}]",
                    <<getBrandDisplayName(brand), storeId, Present(focus)>>)
        s4 == showSection(s3, Investigation)
        s5 == setField(s4, "investigationBrand", brand)
        s6 == setField(s5, "investigationStore", storeId)
        s7 == IF Truthy(focus)
              THEN setField(s6, "investigationPeriod", inferTimeframeFromFocus(focus))
              ELSE s6
    \* the callback has brand and storeId in scope and reads neither
    IN setTimeout(s7, "runInvestigation; announceInvestigationResults", <<brand, storeId>>, 1000)

handleAdvancedLogSearch(s0, m) ==
    LET query     == m.g[1]
        context   == m.g[2]
        source    == m.g[3]
        timeframe == OrElse(parseTimeframe(m.g[4]), <<"2","4","h">>)
        s1 == pushContext(called(s0, "handleAdvancedLogSearch", m.g), "log-search",
                  [query |-> query, context |-> context, source |-> source,
                   timeframe |-> timeframe])
        s2 == speak(s1, "Searching for ${query}[ in ${context}][ from ${source}] for the last ${timeframe}",
                    <<query, Present(context), Present(source), timeframe>>)
        s3 == showSection(s2, LogAnalysis)
        s4 == setField(s3, "logSearchQuery", query)
        s5 == setField(s4, "logSearchTimeframe", timeframe)
        s6 == IF Truthy(context) /\ Truthy(normalizeBrandName(context))
              THEN setField(s5, "logSearchBrand", normalizeBrandName(context))
              ELSE s5
        s7 == IF Truthy(source)
              THEN setField(s6, "logSearchSource",
                       IF Includes(ToLowerCase(source), <<"f","o","r","t","i">>)
                       THEN <<"f","o","r","t","i","a","n","a","l","y","z","e","r">> ELSE <<"w","e","b","f","i","l","t","e","r","s">>)
              ELSE s6
    IN setTimeout(s7, "searchLogs", << >>, 500)

handleSecurityEvents(s0, m) ==
    LET severity == m.g[1]
        context  == m.g[2]
        s1 == pushContext(called(s0, "handleSecurityEvents", m.g), "security-events",
                  [severity |-> severity, context |-> context])
        s2 == speak(s1, "Showing ${severity} security events[ for ${context}]",
                    <<severity, Present(context)>>)
        s3 == showSection(s2, FortiAnalyzer)
    IN setTimeout(s3, "filterSecurityEventsBySeverity", <<severity, context>>, 1000)

handleThreatIntelligence(s0, m) ==
    LET brand     == normalizeBrandName(m.g[1])
        timeframe == OrElse(parseTimeframe(m.g[2]), <<"2","4","h">>)
        s1 == pushContext(called(s0, "handleThreatIntelligence", m.g), "threat-intelligence",
                  [brand |-> brand, timeframe |-> timeframe])
        s2 == speak(s1, "Loading threat intelligence for ${brand} for the last ${timeframe}",
                    <<getBrandDisplayName(brand), timeframe>>)
        s3 == showSection(s2, FortiAnalyzer)
    IN setTimeout(s3, "threatIntelligenceCall", <<brand, timeframe>>, 1000)

handleWebFilterStatus(s0, m) ==
    LET brand   == normalizeBrandName(m.g[1])
        storeId == m.g[2]
        s1 == pushContext(called(s0, "handleWebFilterStatus", m.g), "web-filter-status",
                  [brand |-> brand, storeId |-> storeId])
        s2 == speak(s1, "Checking web filter status for ${brand}[ store ${storeId}]",
                    <<getBrandDisplayName(brand), Present(storeId)>>)
        s3 == showSection(s2, WebFilters)
    IN IF Truthy(storeId)
       THEN setTimeout(setField(setField(s3, "webfilterBrand", brand),
                                "webfilterStoreId", storeId),
                       "viewStoreWebFilters", << >>, 1000)
       ELSE s3

\* up to the first await
handleSystemStatus(s0, m) ==
    awaitApiCall(speak(called(s0, "handleSystemStatus", m.g), "Checking system status", << >>),
                 "/health", << >>, "handleSystemStatus: healthResponse", << >>)

handleReportGeneration(s0, m) ==
    LET reportType == OrElse(m.g[1], <<"s","e","c","u","r","i","t","y">>)
        brand      == normalizeBrandName(m.g[2])
        storeId    == m.g[3]
        timeframe  == OrElse(parseTimeframe(m.g[4]), <<"7","d">>)
        s1 == pushContext(called(s0, "handleReportGeneration", m.g), "report-generation",
                  [reportType |-> reportType, brand |-> brand, storeId |-> storeId,
                   timeframe |-> timeframe])
        s2 == speak(s1, "Generating ${reportType} report for ${brand}[ store ${storeId}] for the last ${timeframe}",
                    <<reportType, getBrandDisplayName(brand), Present(storeId), timeframe>>)
        s3 == showSection(s2, FortiAnalyzer)
    IN setTimeout(s3, "reportCall", <<brand, storeId>>, 1000)

\* handleShowMore without the check for a missing context
handleShowMoreUnguarded(s0, m) ==
    LET s1 == speak(called(s0, "handleShowMore", m.g), "Showing additional details", << >>)
        currentContext == getCurrentContext(s1)
    IN IF currentContext = << >>
       THEN speak(s1, "No additional details available for current view", << >>)
       ELSE LET type == currentContext[1].type
            IN CASE type = "investigation" ->
                      speak(s1, "Showing detailed investigation results", << >>)
                 [] type = "threat-intelligence" ->
                      speak(s1, "Showing detailed threat analysis", << >>)
                 [] type = "security-events" ->
                      speak(s1, "Showing detailed security event analysis", << >>)
                 [] OTHER ->
                      speak(s1, "No additional details available for current view", << >>)

handleShowMore(s0, m) ==
    LET s1 == called(s0, "handleShowMore", m.g)
        currentContext == getCurrentContext(s1)
    IN IF currentContext = << >>
       THEN speak(s1, "No additional details available", << >>)
       ELSE LET s2   == speak(s1, "Showing additional details", << >>)
                type == currentContext[1].type
            IN CASE type = "investigation" ->
                      speak(s2, "Showing detailed investigation results", << >>)
                 [] type = "threat-intelligence" ->
                      speak(s2, "Showing detailed threat analysis", << >>)
                 [] type = "security-events" ->
                      speak(s2, "Showing detailed security event analysis", << >>)
                 [] OTHER ->
                      speak(s2, "No additional details available for current view", << >>)

\* handleGoBack that pops whenever the stack is not empty
handleGoBackPopsLast(s0, m) ==
    LET s1 == called(s0, "handleGoBack", m.g)
    IN IF Len(s1.contextStack) >= 1
       THEN LET s2 == [s1 EXCEPT !.contextStack = SubSeq(@, 1, Len(@) - 1)]
                previousContext == getCurrentContext(s2)
            IN restoreContext(speak(s2, "Going back to previous view", << >>), previousContext)
       ELSE showSection(speak(s1, "Going back to overview", << >>), Overview)

handleGoBack(s0, m) ==
    LET s1 == called(s0, "handleGoBack", m.g)
    IN IF Len(s1.contextStack) > 1
       THEN LET s2 == [s1 EXCEPT !.contextStack = SubSeq(@, 1, Len(@) - 1)]
                previousContext == getCurrentContext(s2)
            IN restoreContext(speak(s2, "Going back to previous view", << >>), previousContext)
       ELSE showSection(speak(s1, "Going back to overview", << >>), Overview)

handleEmergencyCommand(s0, m) ==
    LET emergencyContext == m.g[1]
        s1 == speakRate(called(s0, "handleEmergencyCommand", m.g),
                        "Emergency alert: ${emergencyContext}. Initiating immediate analysis.",
                        <<emergencyContext>>, "1.2")
        s2 == showSection(s1, FortiAnalyzer)
    IN setTimeout(s2, "performEmergencyAnalysis", <<emergencyContext>>, 500)

handleBulkOperation(s0, m) ==
    LET scope     == m.g[1]
        operation == m.g[2]
        s1 == speak(called(s0, "handleBulkOperation", m.g),
                    "Performing bulk analysis across all ${scope}[ for ${operation}]",
                    <<scope, Present(operation)>>)
        s2 == showSection(s1, Overview)
    IN setTimeout(s2, "performBulkAnalysis", <<scope, operation>>, 1000)

\* handler(matches) for a registered handler
CallHandler(handler, s, m) ==
    CASE handler = "handleStoreInvestigation" -> handleStoreInvestigation(s, m)
      [] handler = "handleAdvancedLogSearch"  -> handleAdvancedLogSearch(s, m)
      [] handler = "handleSecurityEvents"     -> handleSecurityEvents(s, m)
      [] handler = "handleThreatIntelligence" -> handleThreatIntelligence(s, m)
      [] handler = "handleWebFilterStatus"    -> handleWebFilterStatus(s, m)
      [] handler = "handleSystemStatus"       -> handleSystemStatus(s, m)
      [] handler = "handleReportGeneration"   -> handleReportGeneration(s, m)
      [] handler = "handleShowMore"           -> handleShowMore(s, m)
      [] handler = "handleGoBack"             -> handleGoBack(s, m)
      [] handler = "handleEmergencyCommand"   -> handleEmergencyCommand(s, m)
      [] handler = "handleBulkOperation"      -> handleBulkOperation(s, m)

(***************************************************************************)
(* VoiceInterface: the exact-phrase table and its actions.                 *)
(***************************************************************************)
Cmd(key, action, arg) == [key |-> key, action |-> action, arg |-> arg]

\* this.voiceCommands, in insertion order
voiceCommands ==
    << Cmd(<<"s","h","o","w"," ","o","v","e","r","v","i","e","w">>, "executeNavigation", Overview),
       Cmd(<<"g","o"," ","t","o"," ","o","v","e","r","v","i","e","w">>, "executeNavigation", Overview),
       Cmd(<<"s","h","o","w"," ","d","a","s","h","b","o","a","r","d">>, "executeNavigation", Overview),
       Cmd(<<"s","h","o","w"," ","i","n","v","e","s","t","i","g","a","t","i","o","n">>, "executeNavigation", Investigation),
       Cmd(<<"o","p","e","n"," ","i","n","v","e","s","t","i","g","a","t","i","o","n">>, "executeNavigation", Investigation),
       Cmd(<<"i","n","v","e","s","t","i","g","a","t","e"," ","s","t","o","r","e">>, "executeNavigation", Investigation),
       Cmd(<<"s","h","o","w"," ","f","o","r","t","i","a","n","a","l","y","z","e","r">>, "executeNavigation", FortiAnalyzer),
       Cmd(<<"o","p","e","n"," ","f","o","r","t","i","a","n","a","l","y","z","e","r">>, "executeNavigation", FortiAnalyzer),
       Cmd(<<"s","h","o","w"," ","l","o","g","s">>, "executeNavigation", FortiAnalyzer),
       Cmd(<<"s","h","o","w"," ","w","e","b"," ","f","i","l","t","e","r","s">>, "executeNavigation", WebFilters),
       Cmd(<<"o","p","e","n"," ","w","e","b"," ","f","i","l","t","e","r","s">>, "executeNavigation", WebFilters),
       Cmd(<<"s","h","o","w"," ","f","i","l","t","e","r","s">>, "executeNavigation", WebFilters),
       Cmd(<<"s","h","o","w"," ","l","o","g"," ","a","n","a","l","y","s","i","s">>, "executeNavigation", LogAnalysis),
       Cmd(<<"s","e","a","r","c","h"," ","l","o","g","s">>, "executeNavigation", LogAnalysis),
       Cmd(<<"a","n","a","l","y","z","e"," ","l","o","g","s">>, "executeNavigation", LogAnalysis),
       Cmd(<<"s","h","o","w"," ","b","u","f","f","a","l","o"," ","w","i","l","d"," ","w","i","n","g","s">>, "executeNavigation", BrandBWW),
       Cmd(<<"s","h","o","w"," ","b","w","w">>, "executeNavigation", BrandBWW),
       Cmd(<<"s","h","o","w"," ","a","r","b","y","s">>, "executeNavigation", BrandARBYS),
       Cmd(<<"s","h","o","w"," ","a","r","b","y","'","s">>, "executeNavigation", BrandARBYS),
       Cmd(<<"s","h","o","w"," ","s","o","n","i","c">>, "executeNavigation", BrandSONIC),
       Cmd(<<"i","n","v","e","s","t","i","g","a","t","e"," ","b","w","w">>, "executeInvestigation", <<"B","W","W">>),
       Cmd(<<"i","n","v","e","s","t","i","g","a","t","e"," ","b","u","f","f","a","l","o"," ","w","i","l","d"," ","w","i","n","g","s">>, "executeInvestigation", <<"B","W","W">>),
       Cmd(<<"i","n","v","e","s","t","i","g","a","t","e"," ","a","r","b","y","s">>, "executeInvestigation", <<"A","R","B","Y","S">>),
       Cmd(<<"i","n","v","e","s","t","i","g","a","t","e"," ","a","r","b","y","'","s">>, "executeInvestigation", <<"A","R","B","Y","S">>),
       Cmd(<<"i","n","v","e","s","t","i","g","a","t","e"," ","s","o","n","i","c">>, "executeInvestigation", <<"S","O","N","I","C">>),
       Cmd(<<"s","h","o","w"," ","t","h","r","e","a","t"," ","i","n","t","e","l","l","i","g","e","n","c","e">>, "executeFortiAnalyzerAction", <<"t","h","r","e","a","t","s">>),
       Cmd(<<"s","h","o","w"," ","t","h","r","e","a","t","s">>, "executeFortiAnalyzerAction", <<"t","h","r","e","a","t","s">>),
       Cmd(<<"s","h","o","w"," ","a","n","a","l","y","t","i","c","s">>, "executeFortiAnalyzerAction", <<"a","n","a","l","y","t","i","c","s">>),
       Cmd(<<"g","e","n","e","r","a","t","e"," ","r","e","p","o","r","t">>, "executeFortiAnalyzerAction", <<"r","e","p","o","r","t">>),
       Cmd(<<"s","e","c","u","r","i","t","y"," ","r","e","p","o","r","t">>, "executeFortiAnalyzerAction", <<"r","e","p","o","r","t">>),
       Cmd(<<"s","t","a","r","t"," ","w","e","b"," ","f","i","l","t","e","r"," ","s","e","r","v","e","r">>, "executeWebFiltersAction", <<"s","t","a","r","t">>),
       Cmd(<<"s","t","o","p"," ","w","e","b"," ","f","i","l","t","e","r"," ","s","e","r","v","e","r">>, "executeWebFiltersAction", <<"s","t","o","p">>),
       Cmd(<<"s","h","o","w"," ","p","o","l","i","c","i","e","s">>, "executeWebFiltersAction", <<"p","o","l","i","c","i","e","s">>),
       Cmd(<<"s","h","o","w"," ","s","s","l"," ","s","t","a","t","u","s">>, "executeWebFiltersAction", <<"s","s","l">>),
       Cmd(<<"r","e","f","r","e","s","h"," ","d","a","t","a">>, "executeSystemAction", <<"r","e","f","r","e","s","h">>),
       Cmd(<<"r","e","f","r","e","s","h">>, "executeSystemAction", <<"r","e","f","r","e","s","h">>),
       Cmd(<<"c","h","e","c","k"," ","c","o","n","n","e","c","t","i","o","n">>, "executeSystemAction", <<"c","o","n","n","e","c","t","i","o","n">>),
       Cmd(<<"h","e","l","p">>, "executeSystemAction", <<"h","e","l","p">>),
       Cmd(<<"w","h","a","t"," ","c","a","n"," ","y","o","u"," ","d","o">>, "executeSystemAction", <<"h","e","l","p">>),
       Cmd(<<"w","h","a","t"," ","i","s"," ","t","h","e"," ","s","t","a","t","u","s">>, "executeSystemAction", <<"s","t","a","t","u","s">>),
       Cmd(<<"s","y","s","t","e","m"," ","s","t","a","t","u","s">>, "executeSystemAction", <<"s","t","a","t","u","s">>),
       Cmd(<<"h","e","a","l","t","h"," ","c","h","e","c","k">>, "executeSystemAction", <<"h","e","a","l","t","h">>) >>

executeNavigation(s, sectionId) ==
    showSection(speak(called(s, "executeNavigation", <<sectionId>>), "Navigating to ${sectionId}",
                      <<ReplaceHyphen(sectionId)>>),
                sectionId)

executeInvestigation(s, brand) ==
    setField(showSection(speak(called(s, "executeInvestigation", <<brand>>),
                               "Opening investigation for ${brand}",
                               <<getBrandDisplayName(brand)>>),
                         Investigation),
             "investigationBrand", brand)

executeStoreInvestigation(s, brand, storeId) ==
    LET s1 == speak(called(s, "executeStoreInvestigation", <<brand, storeId>>),
                    "Investigating ${brand} store ${storeId}",
                    <<getBrandDisplayName(brand), storeId>>)
        s2 == showSection(s1, Investigation)
        s3 == setField(setField(s2, "investigationBrand", brand), "investigationStore", storeId)
    IN setTimeout(s3, "runInvestigation", << >>, 500)

executeFortiAnalyzerAction(s, action) ==
    LET s1 == showSection(called(s, "executeFortiAnalyzerAction", <<action>>), FortiAnalyzer)
    IN CASE action = <<"t","h","r","e","a","t","s">> ->
              setTimeout(speak(s1, "Loading threat intelligence", << >>),
                         "showThreatIntelligence", << >>, 500)
         [] action = <<"a","n","a","l","y","t","i","c","s">> ->
              setTimeout(speak(s1, "Loading log analytics", << >>),
                         "showLogAnalytics", << >>, 500)
         [] action = <<"r","e","p","o","r","t">> ->
              setTimeout(speak(s1, "Generating security report", << >>),
                         "generateSecurityReport", << >>, 500)
         [] OTHER -> s1

executeWebFiltersAction(s, action) ==
    LET s1 == showSection(called(s, "executeWebFiltersAction", <<action>>), WebFilters)
    IN CASE action = <<"s","t","a","r","t">> ->
              setTimeout(speak(s1, "Starting web filters server", << >>),
                         "startWebFiltersServer", << >>, 500)
         [] action = <<"s","t","o","p">> ->
              setTimeout(speak(s1, "Stopping web filters server", << >>),
                         "stopWebFiltersServer", << >>, 500)
         [] action = <<"p","o","l","i","c","i","e","s">> ->
              setTimeout(speak(s1, "Loading web filtering policies", << >>),
                         "viewWebFilteringPolicies", << >>, 500)
         [] action = <<"s","s","l">> ->
              setTimeout(speak(s1, "Checking SSL certificate status", << >>),
                         "viewSSLCertificateStatus", << >>, 500)
         [] OTHER -> s1

\* refreshData up to its first await
refreshData(s) == loadSectionData(showToast(s, "Refreshing data...", "info"), s.currentSection)

\* checkConnection up to its first await
checkConnection(s) == apiCall(s, "/health", << >>)

announceSystemStatus(s) ==
    speak(s, "System status: ${status}",
          <<IF s.connectionStatus = "connected"
            THEN <<"c","o","n","n","e","c","t","e","d"," ","a","n","d"," ","o","p","e","r","a","t","i","o","n","a","l">> ELSE <<"d","i","s","c","o","n","n","e","c","t","e","d">>>>)

announceHealthStatus(s) ==
    speak(s, "Currently viewing ${currentSectionName}. System is ${health}.",
          <<ReplaceHyphen(s.currentSection),
            IF s.connectionStatus = "connected"
            THEN <<"h","e","a","l","t","h","y">> ELSE <<"e","x","p","e","r","i","e","n","c","i","n","g"," ","c","o","n","n","e","c","t","i","o","n"," ","i","s","s","u","e","s">>>>)

announceVoiceHelp(s) == speak(s, "Voice commands available: ...", << >>)

executeSystemAction(s0, action) ==
    LET s == called(s0, "executeSystemAction", <<action>>)
    IN CASE action = <<"r","e","f","r","e","s","h">>    -> refreshData(speak(s, "Refreshing dashboard data", << >>))
         [] action = <<"c","o","n","n","e","c","t","i","o","n">> ->
              checkConnection(speak(s, "Checking connection status", << >>))
         [] action = <<"s","t","a","t","u","s">>     -> announceSystemStatus(s)
         [] action = <<"h","e","a","l","t","h">>     -> announceHealthStatus(s)
         [] action = <<"h","e","l","p">>       -> announceVoiceHelp(s)
         [] OTHER -> s

\* this.voiceCommands[key]()
CallCommand(s, c) ==
    CASE c.action = "executeNavigation"          -> executeNavigation(s, c.arg)
      [] c.action = "executeInvestigation"       -> executeInvestigation(s, c.arg)
      [] c.action = "executeFortiAnalyzerAction" -> executeFortiAnalyzerAction(s, c.arg)
      [] c.action = "executeWebFiltersAction"    -> executeWebFiltersAction(s, c.arg)
      [] c.action = "executeSystemAction"        -> executeSystemAction(s, c.arg)

(***************************************************************************)
(* The LTM intelligence commands: initializeLTM asks /api/ltm/status once, *)
(* and setupLTMCommands adds its patterns behind those of                  *)
(* setupAdvancedCommands when the answer says success.                     *)
(***************************************************************************)
PatternAnalysisPattern ==
    Cat(<< Alt(<<Lit(<<"a","n","a","l","y","z","e">>), Cat(<<Lit(<<"s","h","o","w">>), WS, Lit(<<"m","e">>)>>), Lit(<<"f","i","n","d">>)>>), WS,
           Opt(Cat(<<Lit(<<"s","e","c","u","r","i","t","y">>), WS>>)), Lit(<<"p","a","t","t","e","r","n">>), Opt(Lit(<<"s">>)),
           Opt(Cat(<<WS, Lit(<<"i","n">>), WS, Grp(1, Least)>>)),
           Opt(Cat(<<WS, Lit(<<"f","o","r">>), WS, Lit(<<"t","h","e">>), WS, Lit(<<"l","a","s","t">>), WS, Grp(2, Rest)>>)) >>)

PredictiveAnalysisPattern ==
    Cat(<< Lit(<<"p","r","e","d","i","c","t">>), WS, Opt(Cat(<<Lit(<<"s","e","c","u","r","i","t","y">>), WS>>)),
           Alt(<<Lit(<<"i","s","s","u","e","s">>), Lit(<<"i","n","c","i","d","e","n","t","s">>), Lit(<<"t","h","r","e","a","t","s">>), Lit(<<"p","r","o","b","l","e","m","s">>)>>), WS,
           Lit(<<"f","o","r">>), WS, Grp(1, BrandAlt),
           Opt(Cat(<<WS, Opt(Cat(<<Lit(<<"i","n">>), WS, Lit(<<"t","h","e">>), WS>>)), Lit(<<"n","e","x","t">>), WS,
                     Grp(2, Least)>>)) >>)

LearningQueryPattern ==
    Cat(<< Opt(Cat(<<Lit(<<"w","h","a","t">>), WS, Lit(<<"h","a","v","e">>), WS, Lit(<<"y","o","u">>), WS>>)),
           Lit(<<"l","e","a","r","n">>), Opt(Lit(<<"e","d">>)), WS, Opt(Cat(<<Lit(<<"f","r","o","m">>), WS>>)), Grp(1, Least),
           Opt(Alt(<< Cat(<<WS, Lit(<<"i","n","c","i","d","e","n","t">>), Opt(Lit(<<"s">>))>>),
                      Cat(<<WS, Lit(<<"e","v","e","n","t">>), Opt(Lit(<<"s">>))>>) >>)) >>)

CorrelationAnalysisPattern ==
    Cat(<< Opt(Cat(<<Lit(<<"s","h","o","w">>), WS, Lit(<<"m","e">>), WS>>)),
           Alt(<< Cat(<<Lit(<<"c","o","r","r","e","l","a","t","i","o","n">>), Opt(Lit(<<"s">>))>>),
                  Cat(<<Lit(<<"r","e","l","a","t","i","o","n","s","h","i","p">>), Opt(Lit(<<"s">>))>>),
                  Cat(<<Lit(<<"c","o","n","n","e","c","t","i","o","n">>), Opt(Lit(<<"s">>))>>) >>), WS,
           Lit(<<"b","e","t","w","e","e","n">>), WS, Grp(1, Least),
           Opt(Cat(<<WS, Lit(<<"a","n","d">>), WS, Grp(2, Rest)>>)) >>)

AttackPathAnalysisPattern ==
    Cat(<< Opt(Cat(<<Lit(<<"s","h","o","w">>), WS, Lit(<<"m","e">>), WS>>)),
           Alt(<< Cat(<<Lit(<<"a","t","t","a","c","k">>), WS, Lit(<<"p","a","t","h">>), Opt(Lit(<<"s">>))>>),
                  Cat(<<Lit(<<"p","r","o","p","a","g","a","t","i","o","n">>), WS, Lit(<<"p","a","t","h">>), Opt(Lit(<<"s">>))>>) >>), WS,
           Opt(Cat(<<Lit(<<"f","r","o","m">>), WS, Grp(1, Least)>>)),
           Opt(Cat(<<WS, Lit(<<"t","o">>), WS, Grp(2, Rest)>>)) >>)

LTMInsightsPattern ==
    Cat(<< Opt(Cat(<<Lit(<<"s","h","o","w">>), WS, Lit(<<"m","e">>), WS>>)), Opt(Cat(<<Lit(<<"l","t","m">>), WS>>)),
           Alt(<< Cat(<<Lit(<<"i","n","s","i","g","h","t">>), Opt(Lit(<<"s">>))>>),
                  Cat(<<Lit(<<"a","n","a","l","y","t","i","c">>), Opt(Lit(<<"s">>))>>),
                  Lit(<<"i","n","t","e","l","l","i","g","e","n","c","e">>) >>),
           Opt(Cat(<<WS, Lit(<<"f","o","r">>), WS, Grp(1, Rest)>>)) >>)

\* the addCommandPattern statements of setupLTMCommands, in their order
ltmCommandPatterns ==
    << [pattern |-> PatternAnalysisPattern,     handler |-> "handlePatternAnalysis"],
       [pattern |-> PredictiveAnalysisPattern,  handler |-> "handlePredictiveAnalysis"],
       [pattern |-> LearningQueryPattern,       handler |-> "handleLearningQuery"],
       [pattern |-> CorrelationAnalysisPattern, handler |-> "handleCorrelationAnalysis"],
       [pattern |-> AttackPathAnalysisPattern,  handler |-> "handleAttackPathAnalysis"],
       [pattern |-> LTMInsightsPattern,         handler |-> "handleLTMInsights"] >>

\* the handler methods that voice-commands.js defines for them
ltmHandlers ==
    {"handlePatternAnalysis", "handlePredictiveAnalysis", "handleLearningQuery",
     "handleAttackPathAnalysis", "handleLTMInsights"}

\* setupLTMCommands: this.<handler>.bind(this) of a method that is not defined
\* throws, and the statements after it do not run
RECURSIVE setupLTMCommands(_, _)
setupLTMCommands(registered, k) ==
    IF k > Len(ltmCommandPatterns) \/ ltmCommandPatterns[k].handler \notin ltmHandlers
    THEN registered
    ELSE setupLTMCommands(Append(registered, k), k + 1)

\* the body of initializeLTM after its fetch: probe is "success" (data.success
\* true), "unsuccessful" (data.success false) or "thrown" (fetch or json() rejects);
\* an exception of setupLTMCommands is caught with the flag already set
initializeLTM(probe) ==
    IF probe = "success"
    THEN [ltmEnabled |-> TRUE, ltmPatterns |-> setupLTMCommands(<< >>, 1)]
    ELSE [ltmEnabled |-> FALSE, ltmPatterns |-> << >>]

DecimalDigits == <<"0", "1", "2", "3", "4", "5", "6", "7", "8", "9">>

\* String(n) of a non-negative integer
RECURSIVE NumberString(_)
NumberString(n) ==
    IF n < 10 THEN <<DecimalDigits[n + 1]>>
    ELSE Append(NumberString(n \div 10), DecimalDigits[(n % 10) + 1])

\* parseInt of a string of digits
RECURSIVE parseInt(_)
parseInt(str) ==
    IF str = << >> THEN 0
    ELSE 10 * parseInt(SubSeq(str, 1, Len(str) - 1))
           + ((CHOOSE d \in 1..10 : DecimalDigits[d] = str[Len(str)]) - 1)

\* parseTimeframeToHours; transcripts are in lower case, so the i flag of the
\* expression changes nothing
parseTimeframeToHours(timeframe) ==
    LET match == Match(timeframe,
                       Cat(<< Grp(1, Digits), WS0,
                              Grp(2, Alt(<<Lit(<<"h","o","u","r">>), Lit(<<"d","a","y">>), Lit(<<"w","e","e","k">>)>>)),
                              Opt(Lit(<<"s">>)) >>))
    IN IF ~match.ok THEN 24
       ELSE LET value == parseInt(match.g[1])
            IN CASE match.g[2] = <<"h","o","u","r">> -> value
                 [] match.g[2] = <<"d","a","y">>  -> value * 24
                 [] match.g[2] = <<"w","e","e","k">> -> value * 24 * 7

\* parseTimeframeToDays
parseTimeframeToDays(timeframe) ==
    LET match == Match(timeframe,
                       Cat(<< Grp(1, Digits), WS0,
                              Grp(2, Alt(<<Lit(<<"d","a","y">>), Lit(<<"w","e","e","k">>), Lit(<<"m","o","n","t","h">>)>>)),
                              Opt(Lit(<<"s">>)) >>))
    IN IF ~match.ok THEN 7
       ELSE LET value == parseInt(match.g[1])
            IN CASE match.g[2] = <<"d","a","y">>   -> value
                 [] match.g[2] = <<"w","e","e","k">>  -> value * 7
                 [] match.g[2] = <<"m","o","n","t","h">> -> value * 30

NotAvailable == "LTM intelligence system not available"

\* fetch(url): the request leaves; the handlers below are followed up to it
fetch(s, url, args) == apiCall(s, url, args)

handlePatternAnalysis(s0, m) ==
    LET s1 == called(s0, "handlePatternAnalysis", m.g)
        timeframe == m.g[2]
    IN IF ~s1.ltmEnabled THEN speak(s1, NotAvailable, << >>)
       ELSE fetch(speak(s1, "Analyzing network patterns using LTM intelligence", << >>),
                  "/api/ltm/patterns/analyze[?time_window_hours=${hours}]",
                  IF Truthy(timeframe)
                  THEN <<NumberString(parseTimeframeToHours(timeframe))>> ELSE << >>)

handlePredictiveAnalysis(s0, m) ==
    LET s1 == called(s0, "handlePredictiveAnalysis", m.g)
        brand     == normalizeBrandName(m.g[1])
        timeframe == OrElse(m.g[2], <<"7"," ","d","a","y","s">>)
    IN IF ~s1.ltmEnabled THEN speak(s1, NotAvailable, << >>)
       ELSE fetch(speak(s1, "Generating predictive security analysis for ${brand}",
                        <<getBrandDisplayName(brand)>>),
                  "/api/ltm/predictions/generate?entities=${brand}&time_horizon_days=${days}",
                  <<brand, NumberString(parseTimeframeToDays(timeframe))>>)

handleLearningQuery(s0, m) ==
    LET s1 == called(s0, "handleLearningQuery", m.g)
        topic == m.g[1]
    IN IF ~s1.ltmEnabled THEN speak(s1, NotAvailable, << >>)
       ELSE fetch(speak(s1, "Querying LTM learning database about ${topic}", <<topic>>),
                  "/api/ltm/analytics/insights", << >>)

handleAttackPathAnalysis(s0, m) ==
    LET s1 == called(s0, "handleAttackPathAnalysis", m.g)
        source == m.g[1]
        target == m.g[2]
    IN IF ~s1.ltmEnabled THEN speak(s1, NotAvailable, << >>)
       ELSE fetch(speak(s1, "Analyzing potential attack paths using network graph intelligence",
                        << >>),
                  "/api/ltm/graph/attack-paths[?source_entities=${source}][&target_entities=${target}]",
                  <<Present(source), Present(target)>>)

handleLTMInsights(s0, m) ==
    LET s1 == called(s0, "handleLTMInsights", m.g)
    IN IF ~s1.ltmEnabled THEN speak(s1, NotAvailable, << >>)
       ELSE fetch(speak(s1, "Retrieving comprehensive LTM intelligence insights", << >>),
                  "/api/ltm/analytics/insights", << >>)

\* handler(matches) for a handler that setupLTMCommands registered
CallLTMHandler(handler, s, m) ==
    CASE handler = "handlePatternAnalysis"    -> handlePatternAnalysis(s, m)
      [] handler = "handlePredictiveAnalysis" -> handlePredictiveAnalysis(s, m)
      [] handler = "handleLearningQuery"      -> handleLearningQuery(s, m)
      [] handler = "handleAttackPathAnalysis" -> handleAttackPathAnalysis(s, m)
      [] handler = "handleLTMInsights"        -> handleLTMInsights(s, m)

(***************************************************************************)
(* The utterances the recognition service delivers in this model, as raw   *)
(* transcripts (recognition.onresult lower-cases and trims them).          *)
(***************************************************************************)
StoreUtterances ==
    { <<"I","n","v","e","s","t","i","g","a","t","e"," ","B","W","W"," ","s","t","o","r","e"," ","1","5","5">>,
      <<"i","n","v","e","s","t","i","g","a","t","e"," ","a","r","b","y"," ","s","t","o","r","e"," ","1","5","5">>,
      <<"i","n","v","e","s","t","i","g","a","t","e"," ","a","r","b","y","'","s"," ","s","t","o","r","e"," ","7"," ","f","o","r"," ","r","e","c","e","n","t"," ","a","l","e","r","t","s">> }

PushUtterances ==
    << <<"I","n","v","e","s","t","i","g","a","t","e"," ","B","W","W"," ","s","t","o","r","e"," ","1","5","5">>,
       <<"s","e","a","r","c","h"," ","f","o","r"," ","m","a","l","w","a","r","e"," ","i","n"," ","t","h","e"," ","l","a","s","t"," ","w","e","e","k">>,
       <<"s","h","o","w"," ","c","r","i","t","i","c","a","l"," ","e","v","e","n","t","s">>,
       <<"s","h","o","w"," ","t","h","r","e","a","t"," ","i","n","t","e","l","l","i","g","e","n","c","e"," ","f","o","r"," ","s","o","n","i","c">>,
       <<"c","h","e","c","k"," ","w","e","b"," ","f","i","l","t","e","r"," ","s","t","a","t","u","s"," ","f","o","r"," ","a","r","b","y","s"," ","s","t","o","r","e"," ","7">>,
       <<"g","e","n","e","r","a","t","e"," ","r","e","p","o","r","t"," ","f","o","r"," ","b","u","f","f","a","l","o"," ","w","i","l","d"," ","w","i","n","g","s">> >>

FollowUpUtterances == { <<"s","h","o","w"," ","m","e"," ","m","o","r","e"," ","d","e","t","a","i","l","s">>, <<"g","o"," ","b","a","c","k"," ">> }

TableUtterances ==
    { <<"w","h","a","t"," ","i","s"," ","t","h","e"," ","s","t","a","t","u","s">>,      \* a table key that the status pattern matches too
      <<"s","h","o","w"," ","o","v","e","r","v","i","e","w">>,           \* a table key
      <<"h","e","a","l","t","h"," ","c","h","e","c","k">>,            \* a table key
      <<"p","l","e","a","s","e"," ","s","h","o","w"," ","l","o","g","s">>,        \* contains a table key
      <<"f","r","e","s","h">>,                   \* contained in a table key
      << >> }                       \* contained in every table key

OtherUtterances ==
    { <<"u","r","g","e","n","t"," ","c","h","e","c","k"," ","a","l","l"," ","s","t","o","r","e","s">>, \* emergency and bulk pattern both match
      <<"c","h","e","c","k"," ","a","l","l"," ","s","t","o","r","e","s"," ","f","o","r"," ","m","a","l","w","a","r","e">>,
      <<"c","o","n","s","t","r","u","c","t","o","r">>,             \* no table key, but a member the table inherits
      <<"h","e","l","l","o"," ","w","o","r","l","d">> }            \* nothing matches

RawUtterances ==
    StoreUtterances \cup {PushUtterances[k] : k \in 1..Len(PushUtterances)}
        \cup FollowUpUtterances \cup TableUtterances \cup OtherUtterances

\* String.prototype.trim
RECURSIVE TrimLeft(_)
TrimLeft(s) == IF s # << >> /\ Head(s) = " " THEN TrimLeft(Tail(s)) ELSE s
RECURSIVE TrimRight(_)
TrimRight(s) ==
    IF s # << >> /\ s[Len(s)] = " " THEN TrimRight(SubSeq(s, 1, Len(s) - 1)) ELSE s
Trim(s) == TrimRight(TrimLeft(s))

\* event.results[0][0].transcript.toLowerCase().trim()
Normalize(raw) == Trim(ToLowerCase(raw))

\* utterances addressed to the LTM intelligence commands, one for each of
\* pattern analysis, prediction, learning, correlation, attack paths, insights
LTMUtterances ==
    { <<"a","n","a","l","y","z","e"," ","s","e","c","u","r","i","t","y"," ","p","a","t","t","e","r","n","s"," ","f","o","r"," ","t","h","e"," ","l","a","s","t"," ","2"," ","d","a","y","s">>,
      <<"p","r","e","d","i","c","t"," ","t","h","r","e","a","t","s"," ","f","o","r"," ","b","w","w"," ","i","n"," ","t","h","e"," ","n","e","x","t"," ","2"," ","w","e","e","k","s">>,
      <<"w","h","a","t"," ","h","a","v","e"," ","y","o","u"," ","l","e","a","r","n","e","d"," ","f","r","o","m"," ","m","a","l","w","a","r","e"," ","i","n","c","i","d","e","n","t","s">>,
      <<"s","h","o","w"," ","m","e"," ","c","o","r","r","e","l","a","t","i","o","n","s"," ","b","e","t","w","e","e","n"," ","m","a","l","w","a","r","e"," ","a","n","d"," ","p","h","i","s","h","i","n","g">>,
      <<"s","h","o","w"," ","m","e"," ","a","t","t","a","c","k"," ","p","a","t","h","s"," ","f","r","o","m"," ","s","o","n","i","c">>,
      <<"s","h","o","w"," ","m","e"," ","l","t","m"," ","i","n","s","i","g","h","t","s">> }

\* the transcript of each utterance
Transcribed == [raw \in RawUtterances \cup LTMUtterances |-> Normalize(raw)]

Transcripts == {Transcribed[raw] : raw \in RawUtterances}

LTMTranscripts == {Transcribed[raw] : raw \in LTMUtterances}

(***************************************************************************)
(* Matching results per transcript (they depend on the transcript only).   *)
(***************************************************************************)
PatternMatches ==
    [t \in Transcripts \cup LTMTranscripts |->
        [k \in 1..Len(commandPatterns) |-> Match(t, commandPatterns[k].pattern)]]

LTMMatches ==
    [t \in Transcripts \cup LTMTranscripts |->
        [k \in 1..Len(ltmCommandPatterns) |-> Match(t, ltmCommandPatterns[k].pattern)]]

\* Object.keys(this.voiceCommands).filter(command =>
\*     transcript.includes(command) || command.includes(transcript)), as indices
RECURSIVE FilterCommands(_, _)
FilterCommands(t, k) ==
    IF k > Len(voiceCommands) THEN << >>
    ELSE (IF Includes(t, voiceCommands[k].key) \/ Includes(voiceCommands[k].key, t)
          THEN <<k>> ELSE << >>) \o FilterCommands(t, k + 1)

TableMatches ==
    [t \in Transcripts \cup LTMTranscripts |->
        [exact    |-> {k \in 1..Len(voiceCommands) : voiceCommands[k].key = t},
         partial  |-> FilterCommands(t, 1),
         store    |-> Match(t, StoreInvestigationMatch),
         search   |-> Match(t, LogSearchMatch)]]

(***************************************************************************)
(* processVoiceCommand: the original method of VoiceInterface and the      *)
(* override that voice-commands.js installs in front of it.                *)
(***************************************************************************)
NotRecognized == "Command not recognized. Say \"help\" for available commands."

\* the original method taking the last of the matching keys
originalProcessCommandLastKey(s, transcript) ==
    LET tm == TableMatches[transcript]
    IN IF tm.exact # {}
       THEN CallCommand(speak(s, "Command recognized", << >>),
                        voiceCommands[CHOOSE k \in tm.exact : TRUE])
       ELSE IF transcript \in InheritedMembers
       THEN \* this.voiceCommands[transcript] is Object; calling it changes nothing
            speak(s, "Command recognized", << >>)
       ELSE IF Len(tm.partial) > 0
       THEN CallCommand(speak(s, "Command recognized", << >>), voiceCommands[tm.partial[Len(tm.partial)]])
       ELSE IF tm.store.ok
       THEN executeStoreInvestigation(s, normalizeBrandName(tm.store.g[1]), tm.store.g[2])
       ELSE IF tm.search.ok
       THEN LET query     == tm.search.g[1]
                timeframe == OrElse(parseTimeframe(tm.search.g[2]), <<"2","4","h">>)
                s1 == speak(called(s, "executeLogSearch", <<query, timeframe>>),
                            "Searching logs for ${query} in the ${timeframe}",
                            <<query, timeframe>>)
                s2 == showSection(s1, LogAnalysis)
                s3 == setField(setField(s2, "logSearchQuery", query),
                               "logSearchTimeframe", timeframe)
            IN setTimeout(s3, "searchLogs", << >>, 500)
       ELSE speak(s, NotRecognized, << >>)

originalProcessCommand(s, transcript) ==
    LET tm == TableMatches[transcript]
    IN IF tm.exact # {}
       THEN CallCommand(speak(s, "Command recognized", << >>),
                        voiceCommands[CHOOSE k \in tm.exact : TRUE])
       ELSE IF transcript \in InheritedMembers
       THEN \* this.voiceCommands[transcript] is Object; calling it changes nothing
            speak(s, "Command recognized", << >>)
       ELSE IF Len(tm.partial) > 0
       THEN CallCommand(speak(s, "Command recognized", << >>), voiceCommands[tm.partial[1]])
       ELSE IF tm.store.ok
       THEN executeStoreInvestigation(s, normalizeBrandName(tm.store.g[1]), tm.store.g[2])
       ELSE IF tm.search.ok
       THEN LET query     == tm.search.g[1]
                timeframe == OrElse(parseTimeframe(tm.search.g[2]), <<"2","4","h">>)
                s1 == speak(called(s, "executeLogSearch", <<query, timeframe>>),
                            "Searching logs for ${query} in the ${timeframe}",
                            <<query, timeframe>>)
                s2 == showSection(s1, LogAnalysis)
                s3 == setField(setField(s2, "logSearchQuery", query),
                               "logSearchTimeframe", timeframe)
            IN setTimeout(s3, "searchLogs", << >>, 500)
       ELSE speak(s, NotRecognized, << >>)

\* the loop without its return: every matching pattern's handler runs, then
\* the original method
RECURSIVE ScanPatternsNoReturn(_, _, _)
ScanPatternsNoReturn(s, transcript, k) ==
    IF k > Len(commandPatterns)
    THEN originalProcessCommand(s, transcript)
    ELSE LET matches == PatternMatches[transcript][k]
         IN IF matches.ok
            THEN ScanPatternsNoReturn(CallHandler(commandPatterns[k].handler, s, matches),
                                      transcript, k + 1)
            ELSE ScanPatternsNoReturn(s, transcript, k + 1)

\* the loop run from the last registered pattern to the first
RECURSIVE ScanPatternsBackwards(_, _, _)
ScanPatternsBackwards(s, transcript, k) ==
    IF k > Len(commandPatterns)
    THEN originalProcessCommand(s, transcript)
    ELSE LET j       == Len(commandPatterns) + 1 - k
             matches == PatternMatches[transcript][j]
         IN IF matches.ok
            THEN CallHandler(commandPatterns[j].handler, s, matches)
            ELSE ScanPatternsBackwards(s, transcript, k + 1)

\* the loop over the patterns that setupLTMCommands has added, which stand
\* behind those of setupAdvancedCommands in voiceInterface.commandPatterns
RECURSIVE ScanLTMPatterns(_, _, _)
ScanLTMPatterns(s, transcript, j) ==
    IF j > Len(s.ltmPatterns)
    THEN originalProcessCommand(s, transcript)
    ELSE LET k       == s.ltmPatterns[j]
             matches == LTMMatches[transcript][k]
         IN IF matches.ok
            THEN CallLTMHandler(ltmCommandPatterns[k].handler, s, matches)
            ELSE ScanLTMPatterns(s, transcript, j + 1)

\* the loop over voiceInterface.commandPatterns, from pattern k on
RECURSIVE ScanPatterns(_, _, _)
ScanPatterns(s, transcript, k) ==
    IF k > Len(commandPatterns)
    THEN ScanLTMPatterns(s, transcript, 1)
    ELSE LET matches == PatternMatches[transcript][k]
         IN IF matches.ok
            THEN CallHandler(commandPatterns[k].handler, s, matches)
            ELSE ScanPatterns(s, transcript, k + 1)

\* an override that asks the phrase table before the patterns
processVoiceCommandTableFirst(s, transcript) ==
    IF TableMatches[transcript].exact # {} \/ Len(TableMatches[transcript].partial) > 0
    THEN originalProcessCommand(s, transcript)
    ELSE ScanPatterns(s, transcript, 1)

\* "Try advanced patterns first", then "Fall back to original processing"
processVoiceCommand(s, transcript) == ScanPatterns(s, transcript, 1)

(***************************************************************************)
(* Deferred callbacks (setTimeout), each up to its first await.            *)
(***************************************************************************)
\* values Math.random can give announceInvestigationResults
SecurityEventSamples == {2, 17, 40}

\* answers to the brand prompt of generateSecurityReport
PromptAnswers == {Undefined, <<"B","W","W">>}

runInvestigation(s) ==
    LET brand   == s.fields["investigationBrand"]
        storeId == s.fields["investigationStore"]
        period  == s.fields["investigationPeriod"]
    IN IF ~Truthy(brand) \/ ~Truthy(storeId)
       THEN showToast(s, "Please select brand and enter store ID", "warning")
       ELSE awaitApiCall(showLoading(s, "Investigating store..."),
                         "/api/stores/${brand}/${storeId}/security?recommendations=true",
                         <<brand, storeId>>,
                         "runInvestigation: healthResponse", <<brand, storeId, period>>)

announceInvestigationResults(s, securityEvents) ==
    IF s.activeInvestigation = << >> THEN s
    ELSE LET investigation == s.activeInvestigation[1]
         IN speak(s, "Investigation complete for ${brand} store ${storeId}. ...",
                  <<getBrandDisplayName(investigation.brand), investigation.storeId,
                    IF securityEvents > 30 THEN <<"H","i","g","h"," ","a","c","t","i","v","i","t","y"," ","d","e","t","e","c","t","e","d">>
                    ELSE IF securityEvents < 5 THEN <<"L","o","w"," ","a","c","t","i","v","i","t","y">>
                    ELSE <<"N","o","r","m","a","l"," ","a","c","t","i","v","i","t","y"," ","l","e","v","e","l","s">>>>)

searchLogs(s) ==
    LET query  == Trim(s.fields["logSearchQuery"])
        brand  == s.fields["logSearchBrand"]
        source == s.fields["logSearchSource"]
        s1     == showLoading(s, "Searching logs...")
    IN IF ~Truthy(query)
       THEN showToast(s, "Please enter a search query", "warning")
       ELSE IF source \in {<<"a","l","l">>, <<"f","o","r","t","i","a","n","a","l","y","z","e","r">>}
       THEN apiCall(s1, "/api/fortianalyzer/search?query=${query}&timeframe=${timeframe}[&brand=${brand}]",
                    <<query, s.fields["logSearchTimeframe"], Present(brand)>>)
       ELSE IF source = <<"w","e","b","f","i","l","t","e","r","s">>
       THEN apiCall(s1, "/api/webfilters/logs/search?query=${query}&timeframe=${timeframe}[&brand=${brand}]",
                    <<query, s.fields["logSearchTimeframe"], Present(brand)>>)
       ELSE s1

showThreatIntelligence(s) ==
    apiCall(showLoading(s, "Loading threat intelligence..."),
            "/api/fortianalyzer/threats/${brand}", <<<<"B","W","W">>>>)

viewStoreWebFilters(s) ==
    LET brand   == s.fields["webfilterBrand"]
        storeId == s.fields["webfilterStoreId"]
    IN IF ~Truthy(brand) \/ ~Truthy(storeId)
       THEN showToast(s, "Please select both brand and store ID", "warning")
       ELSE apiCall(showLoading(s, "Loading store web filter configuration..."),
                    "/api/webfilters/${brand}/${storeId}", <<brand, storeId>>)

performEmergencyAnalysis(s, context) ==
    LET s1 == speak(s, "Performing emergency security analysis", << >>)
        s2 == setField(s1, "logSearchQuery", <<"c","r","i","t","i","c","a","l"," ","e","m","e","r","g","e","n","c","y"," ">> \o context)
        s3 == setField(s2, "logSearchTimeframe", <<"1","h">>)
    IN setTimeout(s3, "searchLogs", << >>, 500)

performBulkAnalysis(s, scope, operation) ==
    loadOverviewData(speak(s, "Analyzing ${scope}[ for ${operation}]. This may take a moment.",
                           <<scope, Present(operation)>>))

generateSecurityReport(s, brand, storeId) ==
    IF ~Truthy(brand) THEN s
    ELSE apiCall(showLoading(s, "Generating security report..."),
                 "/api/fortianalyzer/reports/${brand}[?store_id=${storeId}]",
                 <<brand, Present(storeId)>>)

\* the callback of timer t; answer and sample are what prompt and Math.random give it
RunCallback(s, t, answer, sample) ==
    CASE t.cb = "runInvestigation; announceInvestigationResults" ->
           \* announceInvestigationResults first waits 3000 ms
           setTimeout(runInvestigation(s), "announceInvestigationResults", t.vars, 3000)
      [] t.cb = "announceInvestigationResults" -> announceInvestigationResults(s, sample)
      [] t.cb = "runInvestigation" -> runInvestigation(s)
      [] t.cb = "searchLogs" -> searchLogs(s)
      [] t.cb = "filterSecurityEventsBySeverity" ->
           showThreatIntelligence(
               speak(s, "Filtering events by ${severity} severity", <<t.vars[1]>>))
      [] t.cb = "threatIntelligenceCall" ->
           awaitApiCall(s, "/api/fortianalyzer/threats/${brand}?timeframe=${timeframe}", t.vars,
                        "handleThreatIntelligence: response", t.vars)
      [] t.cb = "viewStoreWebFilters" -> viewStoreWebFilters(s)
      [] t.cb = "reportCall" ->
           awaitApiCall(s, "/api/fortianalyzer/reports/${brand}[?store_id=${storeId}]",
                        <<t.vars[1], Present(t.vars[2])>>,
                        "handleReportGeneration: response", << >>)
      [] t.cb = "performEmergencyAnalysis" -> performEmergencyAnalysis(s, t.vars[1])
      [] t.cb = "performBulkAnalysis" -> performBulkAnalysis(s, t.vars[1], t.vars[2])
      [] t.cb = "showThreatIntelligence" -> showThreatIntelligence(s)
      [] t.cb = "showLogAnalytics" ->
           apiCall(showLoading(s, "Loading log analytics..."),
                   "/api/fortianalyzer/analytics", << >>)
      [] t.cb = "generateSecurityReport" -> generateSecurityReport(s, answer, Undefined)
      [] t.cb = "startWebFiltersServer" ->
           apiCall(showLoading(s, "Starting Web Filters server..."),
                   "/api/webfilters/server/start", << >>)
      [] t.cb = "stopWebFiltersServer" ->
           apiCall(showLoading(s, "Stopping Web Filters server..."),
                   "/api/webfilters/server/stop", << >>)
      [] t.cb = "viewWebFilteringPolicies" ->
           apiCall(showLoading(s, "Loading web filtering policies..."),
                   "/api/webfilters/policies", << >>)
      [] t.cb = "viewSSLCertificateStatus" ->
           apiCall(showLoading(s, "Loading SSL certificate status..."),
                   "/api/webfilters/ssl/status", << >>)

(***************************************************************************)
(* State.                                                                  *)
(***************************************************************************)
VARIABLES
    isEnabled,            \* VoiceInterface.isEnabled
    connectionStatus,     \* dashboard.js connectionStatus
    currentSection,       \* dashboard.js currentSection
    fields,               \* value of each page input field
    contextStack,         \* VoiceCommands.contextStack
    activeInvestigation,  \* VoiceCommands.activeInvestigation, << >> for null
    now,                  \* Date.now(), counted in dispatched utterances
    timers,               \* pending setTimeout callbacks, oldest first
    transcript,           \* the transcript the last step dispatched, if it was a dispatch
    invoked,              \* handlers and table actions the last step called
    spoken,               \* speak() calls of the last step
    issued,               \* data calls the last step started
    isListening,          \* VoiceInterface.isListening
    recognition,          \* the recognition service's session
    isSpeaking,           \* VoiceInterface.isSpeaking
    synthesis,            \* utterances the speech service holds, the one it speaks first
    uttering,             \* the service has begun to speak the first of them
    interrupted,          \* utterances cancelled while spoken whose last event is due
    statusRegion,         \* textContent of #statusLiveRegion (aria-live polite)
    alertRegion,          \* textContent of #alertLiveRegion (aria-live assertive)
    awaiting,             \* data calls a handler awaits, oldest first
    gestures,             \* clicks and shortcuts the user has made
    failed,               \* intents of the last utterance whose data call has failed
    announced,            \* intents of the last utterance whose result was announced
    event,                \* what the last step was
    ltmEnabled,           \* VoiceCommands.ltmEnabled
    ltmPatterns,          \* the statements of setupLTMCommands that have added a pattern
    probing,              \* the fetch of /api/ltm/status has not answered
    brandInput,           \* the argument of normalizeBrandName
    normalized,           \* what its two copies returned, call after call
    panelExpanded,        \* #accessibilityPanel has the class 'expanded'
    autoAnnouncements,    \* VoiceAccessibility.autoAnnouncements
    speechRate,           \* VoiceInterface.speechRate, "undefined" until it is set
    speechVolume          \* VoiceInterface.speechVolume, "undefined" until it is set

\* the speech services, the live regions and the calls awaited
services == <<isListening, recognition, isSpeaking, synthesis, uttering, interrupted,
              statusRegion, alertRegion, awaiting, gestures, failed, announced, event,
              ltmEnabled, ltmPatterns, probing, brandInput, normalized,
              panelExpanded, autoAnnouncements, speechRate, speechVolume>>

vars == <<isEnabled, connectionStatus, currentSection, fields, contextStack,
          activeInvestigation, now, timers, transcript, invoked, spoken, issued,
          services>>

\* the state a step starts from
Cur ==
    [isEnabled |-> isEnabled, connectionStatus |-> connectionStatus,
     currentSection |-> currentSection, fields |-> fields,
     contextStack |-> contextStack, activeInvestigation |-> activeInvestigation,
     now |-> now, timers |-> timers,
     ltmEnabled |-> ltmEnabled, ltmPatterns |-> ltmPatterns,
     invoked |-> << >>, spoken |-> << >>, issued |-> << >>]

\* the state a step ends in
Becomes(s) ==
    /\ isEnabled' = s.isEnabled
    /\ connectionStatus' = s.connectionStatus
    /\ currentSection' = s.currentSection
    /\ fields' = s.fields
    /\ contextStack' = s.contextStack
    /\ activeInvestigation' = s.activeInvestigation
    /\ now' = s.now
    /\ timers' = s.timers
    /\ invoked' = s.invoked
    /\ spoken' = s.spoken
    /\ issued' = s.issued

\* the page once its scripts have run
Loaded ==
    /\ isEnabled = FALSE
    /\ connectionStatus = "checking"
    /\ currentSection = Overview
    /\ fields = [f \in FieldIds |-> IF f = "logSearchSource" THEN <<"a","l","l">> ELSE << >>]
    /\ contextStack = << >>
    /\ activeInvestigation = << >>
    /\ now = 0
    /\ timers = << >>
    /\ transcript = Undefined
    /\ invoked = << >>
    /\ spoken = << >>
    /\ issued = << >>
    /\ isListening = FALSE
    /\ recognition = "inactive"
    /\ isSpeaking = FALSE
    /\ synthesis = << >>
    /\ uttering = FALSE
    /\ interrupted = 0
    /\ statusRegion = << >>
    /\ alertRegion = << >>
    /\ awaiting = << >>
    /\ gestures = 0
    /\ failed = {}
    /\ announced = {}
    /\ event = "load"
    /\ ltmEnabled = FALSE
    /\ ltmPatterns = << >>
    /\ probing = TRUE
    /\ panelExpanded = FALSE
    /\ autoAnnouncements = TRUE
    /\ speechRate = "undefined"
    /\ speechVolume = "undefined"

Init ==
    /\ Loaded
    /\ brandInput = Undefined
    /\ normalized = << >>

(***************************************************************************)
(* Steps.                                                                  *)
(***************************************************************************)
\* recognition.onresult
OnResult(raw) ==
    /\ transcript' = Transcribed[raw]
    /\ Becomes(processVoiceCommand([Cur EXCEPT !.now = now + 1], Transcribed[raw]))

\* a timer set earlier with no longer a delay fires first
CanFire(i) == \A j \in 1..(i - 1) : timers[j].delay > timers[i].delay

RemoveAt(seq, i) == SubSeq(seq, 1, i - 1) \o SubSeq(seq, i + 1, Len(seq))

FireTimer(i, answer, sample) ==
    /\ i \in 1..Len(timers)
    /\ CanFire(i)
    /\ transcript' = Undefined
    /\ Becomes(RunCallback([Cur EXCEPT !.timers = RemoveAt(timers, i)],
                           timers[i], answer, sample))

\* VoiceInterface.toggleVoice
ToggleVoice ==
    /\ transcript' = Undefined
    /\ Becomes(LET s == [Cur EXCEPT !.isEnabled = ~isEnabled]
               IN IF s.isEnabled
                  THEN speak(s, "Voice interface enabled", << >>)
                  ELSE speak(s, "Voice interface disabled", << >>))

\* checkConnection after its fetch of /health has answered
ConnectionChecked(ok) ==
    /\ transcript' = Undefined
    /\ Becomes(IF ok
               THEN [Cur EXCEPT !.connectionStatus = "connected"]
               ELSE showToast([Cur EXCEPT !.connectionStatus = "disconnected"],
                              "Connection lost to MCP server", "error"))

\* what the callback asks of the user and of Math.random
Prompted(cb) == IF cb = "generateSecurityReport" THEN PromptAnswers ELSE {Undefined}
Sampled(cb)  == IF cb = "announceInvestigationResults" THEN SecurityEventSamples ELSE {0}

Timeout == \E i \in 1..Len(timers) :
               \E a \in Prompted(timers[i].cb), n \in Sampled(timers[i].cb) :
                   FireTimer(i, a, n)

\* utterances dispatched in a behaviour of Spec
MaxDispatch == 2

\* Spec and SpecStack follow the dispatcher and the page; they leave the
\* speech services aside, which SpecVoice and SpecData follow.
Next ==
    \/ \E raw \in RawUtterances : now < MaxDispatch /\ OnResult(raw) /\ UNCHANGED services
    \/ Timeout /\ UNCHANGED services
    \/ ToggleVoice /\ UNCHANGED services
    \/ \E ok \in BOOLEAN : ConnectionChecked(ok) /\ UNCHANGED services

Spec == Init /\ [][Next]_vars

(***************************************************************************)
(* Long sessions: the six context-pushing intents in rotation, show-more   *)
(* and go-back, each utterance arriving after the deferred work of the     *)
(* one before it has run, and then a walk back through the stack.          *)
(***************************************************************************)
MaxStackDispatch == 12
MaxGoBack == 9

NextPush == PushUtterances[(now % Len(PushUtterances)) + 1]

NextStack ==
    \/ \E raw \in {NextPush} \cup FollowUpUtterances :
           now < MaxStackDispatch /\ timers = << >> /\ OnResult(raw) /\ UNCHANGED services
    \/ /\ MaxStackDispatch <= now /\ now < MaxStackDispatch + MaxGoBack
       /\ timers = << >>
       /\ OnResult(<<"g","o"," ","b","a","c","k"," ">>)
       /\ UNCHANGED services
    \/ Timeout /\ UNCHANGED services

SpecStack == Init /\ [][NextStack]_vars

(***************************************************************************)
(* The speech synthesis service (window.speechSynthesis) as speak() uses   *)
(* it.  speak() above records the call; what the call does to the service  *)
(* is utter(), applied to the calls of a step in their order.              *)
(***************************************************************************)
Audio ==
    [isSpeaking |-> isSpeaking, synthesis |-> synthesis, uttering |-> uttering,
     interrupted |-> interrupted]

\* synthesis.cancel(): every utterance leaves the queue; one being spoken
\* stops, and the event that closes it is delivered later
cancel(a) ==
    [a EXCEPT !.synthesis = << >>, !.uttering = FALSE,
              !.interrupted = IF a.uttering THEN @ + 1 ELSE @]

\* speak(): if (this.isSpeaking) this.synthesis.cancel(); ... this.synthesis.speak(utterance)
utter(a, utterance) ==
    LET a1 == IF a.isSpeaking THEN cancel(a) ELSE a
    IN [a1 EXCEPT !.synthesis = Append(@, utterance)]

RECURSIVE Uttered(_, _)
Uttered(a, calls) ==
    IF calls = << >> THEN a ELSE Uttered(utter(a, Head(calls)), Tail(calls))

\* stopSpeaking()
stopSpeaking(a) == IF a.isSpeaking THEN [cancel(a) EXCEPT !.isSpeaking = FALSE] ELSE a

AudioBecomes(a) ==
    /\ isSpeaking' = a.isSpeaking
    /\ synthesis' = a.synthesis
    /\ uttering' = a.uttering
    /\ interrupted' = a.interrupted

\* the speak() calls of the step reach the service
Heard == AudioBecomes(Uttered(Audio, spoken'))

\* a step that is no dispatch and ends in state s
Step(s) == transcript' = Undefined /\ Becomes(s)

(***************************************************************************)
(* The recognition service (SpeechRecognition, continuous = false).  Its   *)
(* session is inactive, starting (start() accepted, no start event yet),   *)
(* listening, stopping (stop() accepted) or ending (a result or an error   *)
(* was delivered and the end event is due).                                *)
(***************************************************************************)
\* recognition.stop()
stop(r) == IF r \in {"starting", "listening"} THEN "stopping" ELSE r

\* stopListening(): if (this.recognition && this.isListening) this.recognition.stop()
stopListening(r) == IF isListening THEN stop(r) ELSE r

\* startListening() with the recognition object present
startListening(s) ==
    IF isListening
    THEN [s |-> s, r |-> stopListening(recognition)]
    ELSE IF recognition = "inactive"
    THEN [s |-> s, r |-> "starting"]
    ELSE \* recognition.start() throws InvalidStateError
         [s |-> speak(s, "Error starting voice recognition", << >>), r |-> recognition]

ErrorCodes == {"no-speech", "network", "not-allowed", "aborted"}

\* the switch without its case for a refused microphone
errorMessageNoMicrophoneCase(code) ==
    CASE code = "no-speech"   -> "No speech detected. Please try again."
      [] code = "network"     -> "Network error. Please check your connection."
      [] OTHER                -> "Voice recognition error. Please try again."

\* the switch of recognition.onerror
errorMessage(code) ==
    CASE code = "no-speech"   -> "No speech detected. Please try again."
      [] code = "network"     -> "Network error. Please check your connection."
      [] code = "not-allowed" ->
             "Microphone access denied. Please enable microphone permissions."
      [] OTHER                -> "Voice recognition error. Please try again."

\* gestures made in a behaviour of SpecVoice
MaxGestures == 2

UNCHANGED_Rest ==
    UNCHANGED <<statusRegion, alertRegion, awaiting, failed, announced,
                ltmEnabled, ltmPatterns, probing,
                brandInput, normalized,
                panelExpanded, autoAnnouncements, speechRate, speechVolume>>

\* the listen button (enabled with the voice interface) and Ctrl+Shift+L,
\* which also announces itself
RequestListening(shortcut) ==
    /\ gestures < MaxGestures
    /\ shortcut \/ isEnabled
    /\ LET res == startListening(Cur)
       IN /\ Step(IF shortcut THEN speak(res.s, "Voice listening started", << >>) ELSE res.s)
          /\ recognition' = res.r
    /\ isListening' = isListening
    /\ Heard
    /\ gestures' = gestures + 1
    /\ event' = "listen"
    /\ UNCHANGED_Rest

\* the toggle button: toggleVoice(), which stops listening when it disables
ToggleGesture ==
    /\ gestures < MaxGestures
    /\ ToggleVoice
    /\ recognition' = IF isEnabled THEN stopListening(recognition) ELSE recognition
    /\ isListening' = isListening
    /\ Heard
    /\ gestures' = gestures + 1
    /\ event' = "toggle"
    /\ UNCHANGED_Rest

\* the stop button, Ctrl+Shift+S: stopSpeaking()
StopGesture ==
    /\ gestures < MaxGestures
    /\ Step(Cur)
    /\ AudioBecomes(stopSpeaking(Audio))
    /\ gestures' = gestures + 1
    /\ event' = "stop"
    /\ UNCHANGED <<isListening, recognition>>
    /\ UNCHANGED_Rest

\* keydown of the Escape key: if (this.voiceInterface.isSpeaking) stopSpeaking()
EscapeKey ==
    /\ gestures < MaxGestures
    /\ Step(Cur)
    /\ AudioBecomes(IF isSpeaking THEN stopSpeaking(Audio) ELSE Audio)
    /\ gestures' = gestures + 1
    /\ event' = "escape"
    /\ UNCHANGED <<isListening, recognition>>
    /\ UNCHANGED_Rest

\* recognition.onstart
OnStart ==
    /\ recognition = "starting"
    /\ recognition' = "listening"
    /\ isListening' = TRUE
    /\ Step(speak(Cur, "Listening for command", << >>))
    /\ Heard
    /\ event' = "start"
    /\ UNCHANGED gestures
    /\ UNCHANGED_Rest

\* utterances the service hears in SpecVoice
VoiceUtterances == { <<"s","h","o","w"," ","o","v","e","r","v","i","e","w">>, <<"s","h","o","w"," ","t","h","r","e","a","t"," ","i","n","t","e","l","l","i","g","e","n","c","e"," ","f","o","r"," ","s","o","n","i","c">> }

\* recognition.onresult: the one final result of a session
OnSessionResult(raw) ==
    /\ recognition \in {"listening", "stopping"}
    /\ recognition' = "ending"
    /\ OnResult(raw)
    /\ Heard
    /\ event' = "result"
    /\ UNCHANGED <<isListening, gestures>>
    /\ UNCHANGED_Rest

\* recognition.onerror
OnError(code) ==
    /\ recognition \in {"starting", "listening", "stopping"}
    /\ recognition' = "ending"
    /\ isListening' = FALSE
    /\ Step(speak(Cur, errorMessage(code), << >>))
    /\ Heard
    /\ event' = code
    /\ UNCHANGED gestures
    /\ UNCHANGED_Rest

\* an onend that leaves the flag as it is
OnEndKeepsFlag ==
    /\ recognition \in {"listening", "stopping", "ending"}
    /\ recognition' = "inactive"
    /\ isListening' = isListening
    /\ Step(Cur)
    /\ event' = "end"
    /\ UNCHANGED <<isSpeaking, synthesis, uttering, interrupted, gestures>>
    /\ UNCHANGED_Rest

\* recognition.onend
OnEnd ==
    /\ recognition \in {"listening", "stopping", "ending"}
    /\ recognition' = "inactive"
    /\ isListening' = FALSE
    /\ Step(Cur)
    /\ event' = "end"
    /\ UNCHANGED <<isSpeaking, synthesis, uttering, interrupted, gestures>>
    /\ UNCHANGED_Rest

\* utterance.onstart of the first utterance the service holds
UtteranceStart ==
    /\ synthesis # << >> /\ ~uttering
    /\ uttering' = TRUE
    /\ isSpeaking' = TRUE
    /\ Step(Cur)
    /\ event' = "utterance start"
    /\ UNCHANGED <<synthesis, interrupted, isListening, recognition, gestures>>
    /\ UNCHANGED_Rest

\* utterance.onend of the utterance spoken to its end
UtteranceEnd ==
    /\ uttering
    /\ synthesis' = Tail(synthesis)
    /\ uttering' = FALSE
    /\ isSpeaking' = FALSE
    /\ Step(Cur)
    /\ event' = "utterance end"
    /\ UNCHANGED <<interrupted, isListening, recognition, gestures>>
    /\ UNCHANGED_Rest

\* the event that closes an utterance cancelled while spoken: end (onend
\* runs) in some browsers, error (no handler is set for it) in others
InterruptedEnd(asEnd) ==
    /\ interrupted > 0
    /\ interrupted' = interrupted - 1
    /\ isSpeaking' = IF asEnd THEN FALSE ELSE isSpeaking
    /\ Step(Cur)
    /\ event' = "utterance interrupted"
    /\ UNCHANGED <<synthesis, uttering, isListening, recognition, gestures>>
    /\ UNCHANGED_Rest

\* a deferred callback runs
VoiceTimeout ==
    /\ Timeout
    /\ Heard
    /\ event' = "timeout"
    /\ UNCHANGED <<isListening, recognition, gestures>>
    /\ UNCHANGED_Rest

NextVoice ==
    \/ \E shortcut \in BOOLEAN : RequestListening(shortcut)
    \/ ToggleGesture
    \/ StopGesture
    \/ EscapeKey
    \/ OnStart
    \/ \E raw \in VoiceUtterances : OnSessionResult(raw)
    \/ \E code \in ErrorCodes : OnError(code)
    \/ OnEnd
    \/ UtteranceStart
    \/ UtteranceEnd
    \/ \E asEnd \in BOOLEAN : InterruptedEnd(asEnd)
    \/ VoiceTimeout

SpecVoice == Init /\ [][NextVoice]_vars

(***************************************************************************)
(* Data calls coming back.  apiCall returns the body, or throws on a       *)
(* transport error, an HTTP error status or a body with success: false.    *)
(***************************************************************************)
Thrown == [returned |-> FALSE, success |-> FALSE, detail |-> << >>]

\* a body apiCall returns: its success member is true or absent; detail is
\* the part of it the caller reads
Returned(success, detail) == [returned |-> TRUE, success |-> success, detail |-> detail]

\* threat_summary members of the bodies in this model
ThreatSamples ==
    { [total_threats |-> 100, blocked_threats |-> 96],
      [total_threats |-> 100, blocked_threats |-> 80],
      [total_threats |-> 0, blocked_threats |-> 0] }

Answers(then) ==
    CASE then = "handleThreatIntelligence: response" ->
             {Thrown, Returned(FALSE, << >>), Returned(TRUE, << >>)}
                 \cup {Returned(TRUE, <<t>>) : t \in ThreatSamples}
      [] then = "handleReportGeneration: response" ->
             {Thrown, Returned(FALSE, << >>), Returned(TRUE, << >>),
              Returned(TRUE, <<[recommendations |-> 2]>>)}
      [] then = "handleSystemStatus: healthResponse" ->
             {Thrown, Returned(FALSE, <<"healthy">>), Returned(FALSE, <<"degraded">>)}
      [] then = "handleSystemStatus: integrationResponse" ->
             {Thrown, Returned(FALSE, << >>), Returned(TRUE, <<"fully_operational">>),
              Returned(TRUE, <<"limited">>)}
      [] OTHER -> {Thrown, Returned(TRUE, << >>)}

\* storeId.padStart(5, '0')
RECURSIVE PadStart(_, _)
PadStart(str, n) == IF Len(str) >= n THEN str ELSE PadStart(<<"0">> \o str, n)

\* Math.max
MathMax(a, b) == IF a >= b THEN a ELSE b

(***************************************************************************)
(* Numbers are IEEE 754 doubles.  A double above zero is written here as   *)
(* [m, e]: 53 bits, the first of them 1 and the first one first, and the   *)
(* exponent of the last bit, so that its value is m * 2^e.  The quotient   *)
(* and the product below are rounded as the arithmetic rounds them, to the *)
(* nearest double and to the even one of two that are equally near.  Long  *)
(* division and multiplication go by digits of nine bits (base 512).       *)
(***************************************************************************)
Significand == 53

Zero == [m |-> << >>, e |-> 0]

RECURSIVE Pow2(_)
Pow2(x) ==
    IF x = 0 THEN 1
    ELSE IF x % 2 = 1 THEN 2 * Pow2(x - 1)
    ELSE LET half == Pow2(x \div 2) IN half * half

\* the integer that bits lo to hi of bits write
RECURSIVE BitsInt(_, _, _)
BitsInt(bits, lo, hi) ==
    IF lo > hi THEN 0
    ELSE IF lo = hi THEN bits[lo]
    ELSE LET mid == (lo + hi) \div 2
         IN BitsInt(bits, lo, mid) * Pow2(hi - mid) + BitsInt(bits, mid + 1, hi)

\* the bits of a sequence of digits
DigitBits(digits) ==
    [i \in 1..(9 * Len(digits)) |->
        (digits[((i - 1) \div 9) + 1] \div Pow2(8 - ((i - 1) % 9))) % 2]

\* the digits of 9 * n bits
BitDigits(bits, n) == [j \in 1..n |-> BitsInt(bits, 9 * (j - 1) + 1, 9 * j)]

\* bits without the zeros they begin with
Leading(bits) ==
    LET first == CHOOSE i \in 1..Len(bits) : bits[i] = 1 /\ \A j \in 1..(i - 1) : bits[j] = 0
    IN SubSeq(bits, first, Len(bits))

\* bits * 2^e, known beyond the last bit by the next bit (guard) and by
\* whether anything follows that one (sticky), rounded to a double
RoundToDouble(bits, guard, sticky, e) ==
    IF guard = 1 /\ (sticky \/ bits[Len(bits)] = 1)
    THEN IF \A k \in 1..Len(bits) : bits[k] = 1
         THEN [m |-> [k \in 1..Len(bits) |-> IF k = 1 THEN 1 ELSE 0], e |-> e + 1]
         ELSE LET z == CHOOSE k \in 1..Len(bits) :
                           bits[k] = 0 /\ \A j \in (k + 1)..Len(bits) : bits[j] = 1
              IN [m |-> [k \in 1..Len(bits) |->
                            IF k < z THEN bits[k] ELSE IF k = z THEN 1 ELSE 0],
                  e |-> e]
    ELSE [m |-> bits, e |-> e]

\* the next n digits of r / d, for r < d, and what is left
RECURSIVE QuotientDigits(_, _, _)
QuotientDigits(r, d, n) ==
    IF n = 0 THEN [digits |-> << >>, r |-> r]
    ELSE LET rest == QuotientDigits((512 * r) % d, d, n - 1)
         IN [digits |-> <<(512 * r) \div d>> \o rest.digits, r |-> rest.r]

\* the exponent x with 2^x <= a / b < 2^(x + 1)
RECURSIVE Exponent(_, _)
Exponent(a, b) ==
    IF a < b THEN Exponent(2 * a, b) - 1
    ELSE IF a >= 2 * b THEN Exponent(a, 2 * b) + 1
    ELSE 0

\* a / b in doubles, for integers a >= 0 and b > 0
Divide(a, b) ==
    IF a = 0 THEN Zero
    ELSE LET x  == Exponent(a, b)
             n  == IF x < 0 THEN a * Pow2(-x) ELSE a
             d  == IF x > 0 THEN b * Pow2(x) ELSE b
             q  == QuotientDigits(n - d, d, 6)    \* n / d is in [1, 2)
             fraction == DigitBits(q.digits)
         IN RoundToDouble(<<1>> \o SubSeq(fraction, 1, Significand - 1),
                          fraction[Significand],
                          fraction[Significand + 1] = 1 \/ q.r # 0,
                          x - (Significand - 1))

\* digits * c for a small integer c, from the last digit i to the first
RECURSIVE DigitsTimes(_, _, _, _)
DigitsTimes(digits, c, i, carry) ==
    IF i = 0 THEN <<carry>>
    ELSE Append(DigitsTimes(digits, c, i - 1, (digits[i] * c + carry) \div 512),
                (digits[i] * c + carry) % 512)

\* x * c in doubles, for a double x and an integer c from 1 to 511
Times(x, c) ==
    IF x = Zero THEN Zero
    ELSE LET product == Leading(DigitBits(DigitsTimes(BitDigits(<<0>> \o x.m, 6), c, 6, 0)))
             extra   == Len(product) - Significand
         IN RoundToDouble(SubSeq(product, 1, Significand),
                          IF extra > 0 THEN product[Significand + 1] ELSE 0,
                          \E k \in (Significand + 2)..Len(product) : product[k] = 1,
                          x.e + extra)

\* Math.round of a double x >= 0: the nearest integer, the upper one of two
\* that are equally near
MathRound(x) ==
    IF x = Zero \/ -x.e > Significand THEN 0
    ELSE IF x.e >= 0 THEN BitsInt(x.m, 1, Significand) * Pow2(x.e)
    ELSE BitsInt(x.m, 1, Significand + x.e) + x.m[Significand + x.e + 1]

\* threats[name] || fallback: a field that is missing or zero gives the fallback
FieldOr(threats, name, fallback) ==
    IF name \in DOMAIN threats /\ threats[name] # 0 THEN threats[name] ELSE fallback

\* Math.max(threats.total_threats || 1, 1)
Divisor(threats) == MathMax(FieldOr(threats, "total_threats", 1), 1)

\* the block rate in exact arithmetic, halves rounded up
blockRateExact(threats) ==
    LET total == Divisor(threats)
    IN (200 * FieldOr(threats, "blocked_threats", 0) + total) \div (2 * total)

\* a block rate that counts 'nothing to block' as everything blocked
blockRateVacuous(threats) ==
    IF FieldOr(threats, "total_threats", 0) = 0 THEN 100
    ELSE MathRound(Times(Divide(FieldOr(threats, "blocked_threats", 0), Divisor(threats)), 100))

\* Math.round(((threats.blocked_threats || 0) / Math.max(threats.total_threats || 1, 1)) * 100)
blockRate(threats) ==
    LET ratio == Divide(FieldOr(threats, "blocked_threats", 0), Divisor(threats))
    IN MathRound(Times(ratio, 100))

\* the closing sentence with thresholds that belong to the better tier
tierSentenceInclusive(rate) ==
    IF rate >= 95 THEN "Excellent threat protection."
    ELSE IF rate >= 90 THEN "Good threat protection."
    ELSE "Consider reviewing security policies."

\* the closing sentence of announceThreatIntelligence
tierSentence(rate) ==
    IF rate > 95 THEN "Excellent threat protection."
    ELSE IF rate > 90 THEN "Good threat protection."
    ELSE "Consider reviewing security policies."

ThreatSummary == "Threat intelligence summary: ${total} total threats detected, ${blocked} successfully blocked. Block rate: ${blockRate}%. ${tier}"

\* data.threat_summary is detail: << >> when the body has none
announceThreatIntelligence(s, detail) ==
    IF detail = << >> THEN s
    ELSE LET threats == detail[1]
         IN speak(s, ThreatSummary,
                  <<NumberString(FieldOr(threats, "total_threats", 0)),
                    NumberString(FieldOr(threats, "blocked_threats", 0)),
                    NumberString(blockRate(threats)), tierSentence(blockRate(threats))>>)

ReportSummary == "Report generated successfully. Security posture: ... [${n} recommendations provided.]"

announceReportResults(s, detail) ==
    IF detail = << >> THEN s
    ELSE speak(s, ReportSummary, <<NumberString(detail[1].recommendations)>>)

\* the catch of a handler that rolls the handler's navigation back
threatIntelligenceCatchRollsBack(s) ==
    showSection([speak(s, "Error loading threat intelligence", << >>)
                     EXCEPT !.contextStack = SubSeq(@, 1, Len(@) - 1)],
                Overview)

\* catch (error) of the handleThreatIntelligence callback
threatIntelligenceCatch(s) == speak(s, "Error loading threat intelligence", << >>)

\* handleThreatIntelligence after its await, restarted only on the section it set
threatIntelligenceResponseIfCurrent(s, locals, answer) ==
    IF s.currentSection # FortiAnalyzer THEN s
    ELSE IF ~answer.returned THEN threatIntelligenceCatch(s)
    ELSE IF answer.success
    THEN called(announceThreatIntelligence(s, answer.detail),
                "renderThreatIntelligenceDashboard", <<locals[1]>>)
    ELSE s

\* handleThreatIntelligence after its await; locals are brand and timeframe
threatIntelligenceResponse(s, locals, answer) ==
    IF ~answer.returned THEN threatIntelligenceCatch(s)
    ELSE IF answer.success
    THEN called(announceThreatIntelligence(s, answer.detail),
                "renderThreatIntelligenceDashboard", <<locals[1]>>)
    ELSE s

\* handleReportGeneration after its await
reportResponse(s, answer) ==
    IF ~answer.returned THEN speak(s, "Error generating report", << >>)
    ELSE IF answer.success
    THEN called(announceReportResults(s, answer.detail), "renderSecurityReportModal", << >>)
    ELSE s

StatusUnavailable == "Unable to check system status. Connection may be down."

\* handleSystemStatus after its first await
healthResponse(s, answer) ==
    IF ~answer.returned THEN speak(s, StatusUnavailable, << >>)
    ELSE awaitApiCall(s, "/api/integration/status", << >>,
                      "handleSystemStatus: integrationResponse", answer.detail)

\* handleSystemStatus after its second await; locals holds healthResponse.status
integrationResponse(s, locals, answer) ==
    IF ~answer.returned THEN speak(s, StatusUnavailable, << >>)
    ELSE speak(s, "System status: ${health}[${n} integration modules active. ${integrations}]",
               <<IF locals[1] = "healthy" THEN <<"A","l","l"," ","s","y","s","t","e","m","s"," ","o","p","e","r","a","t","i","o","n","a","l","."," ">>
                 ELSE <<"S","y","s","t","e","m"," ","i","s","s","u","e","s"," ","d","e","t","e","c","t","e","d","."," ">>,
                 IF ~answer.success THEN Undefined
                 ELSE IF answer.detail[1] = "fully_operational"
                 THEN <<"A","l","l"," ","i","n","t","e","g","r","a","t","i","o","n","s"," ","o","p","e","r","a","t","i","o","n","a","l",".">>
                 ELSE <<"S","o","m","e"," ","i","n","t","e","g","r","a","t","i","o","n","s"," ","h","a","v","e"," ","l","i","m","i","t","e","d"," ","f","u","n","c","t","i","o","n","a","l","i","t","y",".">>>>)

\* catch (error) of runInvestigation
investigationCatch(s) == showToast(s, "Investigation failed", "error")

\* runInvestigation after each of its three awaits; locals are brand, storeId, period
investigationResponse(s, stage, locals, answer) ==
    IF ~answer.returned THEN investigationCatch(s)
    ELSE CASE stage = "runInvestigation: healthResponse" ->
                awaitApiCall(s, "/api/stores/${brand}/${storeId}/url-blocking?period=${period}&export=true",
                             locals, "runInvestigation: blockingResponse", locals)
           [] stage = "runInvestigation: blockingResponse" ->
                awaitApiCall(s, "/api/devices/${deviceName}/security-events?timeframe=${period}&top_count=20",
                             <<<<"I","B","R","-">> \o locals[1] \o <<"-">> \o PadStart(locals[2], 5), locals[3]>>,
                             "runInvestigation: eventsResponse", locals)
           [] OTHER -> showToast(s, "Investigation completed successfully", "success")

\* the code after the await of call c runs with what the call came back with
Resume(s, c, answer) ==
    CASE c.then = "handleThreatIntelligence: response" ->
             threatIntelligenceResponse(s, c.vars, answer)
      [] c.then = "handleReportGeneration: response" -> reportResponse(s, answer)
      [] c.then = "handleSystemStatus: healthResponse" -> healthResponse(s, answer)
      [] c.then = "handleSystemStatus: integrationResponse" ->
             integrationResponse(s, c.vars, answer)
      [] OTHER -> investigationResponse(s, c.then, c.vars, answer)

\* the intent a call belongs to
IntentOf(then) ==
    CASE then \in {"handleThreatIntelligence: response"} -> "threat intelligence"
      [] then \in {"handleReportGeneration: response"} -> "report generation"
      [] then \in {"handleSystemStatus: healthResponse",
                   "handleSystemStatus: integrationResponse"} -> "system status"
      [] OTHER -> "store investigation"

\* the sentence that announces an intent's result
ResultOf(msg) ==
    CASE msg = ThreatSummary -> {"threat intelligence"}
      [] msg = ReportSummary -> {"report generation"}
      [] msg = "System status: ${health}[${n} integration modules active. ${integrations}]" ->
             {"system status"}
      [] msg \in {"Investigation complete for ${brand} store ${storeId}. ...",
                  "Investigation completed successfully"} -> {"store investigation"}
      [] OTHER -> {}

\* the awaited calls among the data calls of a step
RECURSIVE AwaitedOf(_)
AwaitedOf(calls) ==
    IF calls = << >> THEN << >>
    ELSE (IF Head(calls).then # "" THEN <<Head(calls)>> ELSE << >>) \o AwaitedOf(Tail(calls))

ResultsIn(calls) == UNION {ResultOf(calls[k].msg) : k \in 1..Len(calls)}

\* utterances of the four data-calling intents
DataUtterances ==
    { <<"I","n","v","e","s","t","i","g","a","t","e"," ","B","W","W"," ","s","t","o","r","e"," ","1","5","5">>,
      <<"s","h","o","w"," ","t","h","r","e","a","t"," ","i","n","t","e","l","l","i","g","e","n","c","e"," ","f","o","r"," ","s","o","n","i","c">>,
      <<"g","e","n","e","r","a","t","e"," ","r","e","p","o","r","t"," ","f","o","r"," ","b","u","f","f","a","l","o"," ","w","i","l","d"," ","w","i","n","g","s">>,
      <<"w","h","a","t"," ","i","s"," ","t","h","e"," ","s","t","a","t","u","s">> }

\* utterances dispatched in a behaviour of SpecData
MaxDataDispatch == 2

UNCHANGED_Speech ==
    UNCHANGED <<isListening, recognition, isSpeaking, synthesis, uttering, interrupted,
                statusRegion, alertRegion, gestures, ltmEnabled, ltmPatterns, probing,
                brandInput, normalized,
                panelExpanded, autoAnnouncements, speechRate, speechVolume>>

\* an utterance arrives once the work of the one before it is over
DataResult(raw) ==
    /\ now < MaxDataDispatch
    /\ timers = << >> /\ awaiting = << >>
    /\ OnResult(raw)
    /\ awaiting' = AwaitedOf(issued')
    /\ failed' = {}
    /\ announced' = ResultsIn(spoken')
    /\ event' = "result"
    /\ UNCHANGED_Speech

DataTimeout ==
    /\ Timeout
    /\ awaiting' = awaiting \o AwaitedOf(issued')
    /\ failed' = failed
    /\ announced' = announced \cup ResultsIn(spoken')
    /\ event' = "timeout"
    /\ UNCHANGED_Speech

\* the i-th awaited call comes back
Responded(i, answer) ==
    /\ i \in 1..Len(awaiting)
    /\ answer \in Answers(awaiting[i].then)
    /\ Step(Resume(Cur, awaiting[i], answer))
    /\ awaiting' = RemoveAt(awaiting, i) \o AwaitedOf(issued')
    /\ failed' = IF answer.returned THEN failed ELSE failed \cup {IntentOf(awaiting[i].then)}
    /\ announced' = announced \cup ResultsIn(spoken')
    /\ event' = IF answer.returned THEN "returned" ELSE "thrown"
    /\ UNCHANGED_Speech

DataToggle ==
    /\ ToggleVoice
    /\ event' = "toggle"
    /\ UNCHANGED <<awaiting, failed, announced>>
    /\ UNCHANGED_Speech

NextData ==
    \/ \E raw \in DataUtterances : DataResult(raw)
    \/ DataTimeout
    \/ \E i \in 1..Len(awaiting) : \E answer \in Answers(awaiting[i].then) : Responded(i, answer)
    \/ DataToggle

SpecData == Init /\ [][NextData]_vars

(***************************************************************************)
(* The dispatcher with the LTM intelligence commands: the answer of the    *)
(* status probe arrives at any time, before or between utterances.         *)
(***************************************************************************)
ProbeAnswers == {"success", "unsuccessful", "thrown"}

UNCHANGED_Services ==
    UNCHANGED <<isListening, recognition, isSpeaking, synthesis, uttering, interrupted,
                statusRegion, alertRegion, awaiting, gestures, failed, announced,
                brandInput, normalized,
                panelExpanded, autoAnnouncements, speechRate, speechVolume>>

\* initializeLTM continues after its fetch
LTMStatus(probe) ==
    /\ probing
    /\ probing' = FALSE
    /\ ltmEnabled' = initializeLTM(probe).ltmEnabled
    /\ ltmPatterns' = initializeLTM(probe).ltmPatterns
    /\ Step(Cur)
    /\ event' = probe
    /\ UNCHANGED_Services

\* utterances dispatched in a behaviour of SpecLTM
MaxLTMDispatch == 2

LTMDispatch(raw) ==
    /\ now < MaxLTMDispatch
    /\ OnResult(raw)
    /\ event' = "result"
    /\ UNCHANGED <<ltmEnabled, ltmPatterns, probing>>
    /\ UNCHANGED_Services

LTMTimeout ==
    /\ Timeout
    /\ event' = "timeout"
    /\ UNCHANGED <<ltmEnabled, ltmPatterns, probing>>
    /\ UNCHANGED_Services

NextLTM ==
    \/ \E probe \in ProbeAnswers : LTMStatus(probe)
    \/ \E raw \in LTMUtterances \cup { <<"s","h","o","w"," ","t","h","r","e","a","t"," ","i","n","t","e","l","l","i","g","e","n","c","e"," ","f","o","r"," ","s","o","n","i","c">> } : LTMDispatch(raw)
    \/ LTMTimeout

SpecLTM == Init /\ [][NextLTM]_vars

(***************************************************************************)
(* The dispatch loop as a whole: sessions of the recognition service, the  *)
(* dispatch of what they hear, the deferred work and the data calls of     *)
(* the handlers.  The service closes what it has opened: a session that    *)
(* start() has opened reports its start or an error, and every session     *)
(* reports its end.                                                        *)
(***************************************************************************)
\* a threat-intelligence request, whose data call may fail, and a miss
LoopUtterances == { <<"s","h","o","w"," ","t","h","r","e","a","t"," ","i","n","t","e","l","l","i","g","e","n","c","e"," ","f","o","r"," ","s","o","n","i","c">>, <<"h","e","l","l","o"," ","w","o","r","l","d">> }

UNCHANGED_Page == UNCHANGED <<statusRegion, alertRegion, ltmEnabled, ltmPatterns, probing,
                brandInput, normalized,
                panelExpanded, autoAnnouncements, speechRate, speechVolume>>

\* recognition.onresult
LoopResult(raw) ==
    /\ recognition \in {"listening", "stopping"}
    /\ recognition' = "ending"
    /\ OnResult(raw)
    /\ Heard
    /\ awaiting' = awaiting \o AwaitedOf(issued')
    /\ event' = "result"
    /\ UNCHANGED <<isListening, gestures, failed, announced>>
    /\ UNCHANGED_Page

\* a deferred callback runs
LoopTimeout ==
    /\ Timeout
    /\ Heard
    /\ awaiting' = awaiting \o AwaitedOf(issued')
    /\ event' = "timeout"
    /\ UNCHANGED <<isListening, recognition, gestures, failed, announced>>
    /\ UNCHANGED_Page

\* the i-th awaited call comes back
LoopResponded(i, answer) ==
    /\ i \in 1..Len(awaiting)
    /\ answer \in Answers(awaiting[i].then)
    /\ Step(Resume(Cur, awaiting[i], answer))
    /\ Heard
    /\ awaiting' = RemoveAt(awaiting, i) \o AwaitedOf(issued')
    /\ failed' = IF answer.returned THEN failed ELSE failed \cup {IntentOf(awaiting[i].then)}
    /\ event' = IF answer.returned THEN "returned" ELSE "thrown"
    /\ UNCHANGED <<isListening, recognition, gestures, announced>>
    /\ UNCHANGED_Page

NextLoop ==
    \/ \E shortcut \in BOOLEAN : RequestListening(shortcut)
    \/ OnStart
    \/ \E raw \in LoopUtterances : LoopResult(raw)
    \/ \E code \in ErrorCodes : OnError(code)
    \/ OnEnd
    \/ LoopTimeout
    \/ \E i \in 1..Len(awaiting) : \E answer \in Answers(awaiting[i].then) :
           LoopResponded(i, answer)

SpecLoop == Init /\ [][NextLoop]_vars /\ WF_vars(OnStart) /\ WF_vars(OnEnd)

(***************************************************************************)
(* Threat intelligence with every payload: the request, its deferred data  *)
(* call, and a response whose threat_summary holds any two counts up to    *)
(* MaxThreats, or one of the summaries of a hundred threats.               *)
(***************************************************************************)
MaxThreats == 31

\* threat summaries that lack one field or both
MissingFields ==
    { << >>, [total_threats |-> 0], [blocked_threats |-> 0],
      [total_threats |-> 7], [blocked_threats |-> 7] }

ThreatPayloads ==
    [total_threats : 0..MaxThreats, blocked_threats : 0..MaxThreats]
        \cup {[total_threats |-> 100, blocked_threats |-> n] : n \in {80, 91, 96}}
        \cup MissingFields

\* the threat-intelligence call comes back with success and a threat_summary
ThreatsReported(threats) ==
    /\ awaiting # << >>
    /\ awaiting[1].then = "handleThreatIntelligence: response"
    /\ Step(Resume(Cur, awaiting[1], Returned(TRUE, <<threats>>)))
    /\ awaiting' = Tail(awaiting) \o AwaitedOf(issued')
    /\ failed' = failed
    /\ announced' = announced \cup ResultsIn(spoken')
    /\ event' = "returned"
    /\ UNCHANGED_Speech

NextTiers ==
    \/ DataResult(<<"s","h","o","w"," ","t","h","r","e","a","t"," ","i","n","t","e","l","l","i","g","e","n","c","e"," ","f","o","r"," ","s","o","n","i","c">>)
    \/ DataTimeout
    \/ \E threats \in ThreatPayloads : ThreatsReported(threats)

SpecTiers == Init /\ [][NextTiers]_vars

(***************************************************************************)
(* Brand names: normalizeBrandName called with an alias in any casing or   *)
(* with another word, and called again with what it returned.              *)
(***************************************************************************)
\* every way to write a word in upper and lower case letters
Casings(word) ==
    { [k \in 1..Len(word) |-> IF k \in upper THEN UpperChar(word[k]) ELSE LowerChar(word[k])] :
          upper \in SUBSET (1..Len(word)) }

\* the keys of brandMap
Aliases == { brandMap[k][1] : k \in 1..Len(brandMap) }

ShortAliases == { a \in Aliases : Len(a) <= 6 }

BrandInputs ==
    UNION { Casings(a) : a \in ShortAliases }
        \cup { <<"b","u","f","f","a","l","o"," ","w","i","l","d"," ","w","i","n","g","s">>, <<"B","U","F","F","A","L","O"," ","W","I","L","D"," ","W","I","N","G","S">>, <<"B","u","f","f","a","l","o"," ","W","i","l","d"," ","W","i","n","g","s">>,
               <<"b","u","f","f","a","l","o"," ","w","i","l","d"," ","W","i","n","g","s">>, <<"b","U","F","F","A","L","O"," ","w","I","L","D"," ","w","I","N","G","S">> }
        \cup Casings(<<"a","r","b","y">>) \cup Casings(<<"k","f","c">>)
        \cup { << >>, <<"t","a","c","o"," ","b","e","l","l">>, <<"T","a","c","o"," ","B","e","l","l">>, <<"c","o","n","s","t","r","u","c","t","o","r">>, <<"C","o","n","s","t","r","u","c","t","o","r">> }

InitBrand ==
    /\ Loaded
    /\ brandInput \in BrandInputs
    /\ normalized = << >>

\* a call of the function alone leaves the page and the services as they are
UNCHANGED_Program ==
    UNCHANGED <<brandInput, isEnabled, connectionStatus, currentSection, fields,
                contextStack, activeInvestigation, now, timers, transcript, invoked,
                spoken, issued, isListening, recognition, isSpeaking, synthesis,
                uttering, interrupted, statusRegion, alertRegion, awaiting, gestures,
                failed, announced, event, ltmEnabled, ltmPatterns, probing,
                panelExpanded, autoAnnouncements, speechRate, speechVolume>>

\* const brand = this.normalizeBrandName(brandInput), in either class
NormalizeBrand ==
    /\ normalized = << >>
    /\ normalized' = << <<normalizeBrandName(brandInput),
                          VoiceInterface_normalizeBrandName(brandInput)>> >>
    /\ UNCHANGED_Program

\* this.normalizeBrandName(brand): each copy called with what it returned
NormalizeAgain ==
    /\ Len(normalized) = 1
    /\ normalized' = Append(normalized,
                            <<normalizeBrandName(normalized[1][1]),
                              VoiceInterface_normalizeBrandName(normalized[1][2])>>)
    /\ UNCHANGED_Program

NextBrand ==
    \/ NormalizeBrand
    \/ NormalizeAgain

SpecBrand == InitBrand /\ [][NextBrand]_vars

(***************************************************************************)
(* Navigation while data calls are outstanding: utterances and clicks on   *)
(* the navigation buttons arrive at any time, also between the request of  *)
(* a handler and the return of its data call.                              *)
(***************************************************************************)
FlightUtterances ==
    { <<"s","h","o","w"," ","t","h","r","e","a","t"," ","i","n","t","e","l","l","i","g","e","n","c","e"," ","f","o","r"," ","s","o","n","i","c">>,
      <<"g","e","n","e","r","a","t","e"," ","r","e","p","o","r","t"," ","f","o","r"," ","b","u","f","f","a","l","o"," ","w","i","l","d"," ","w","i","n","g","s">>,
      <<"s","h","o","w"," ","o","v","e","r","v","i","e","w">>,
      <<"g","o"," ","b","a","c","k"," ">> }

\* utterances dispatched in a behaviour of SpecFlight
MaxFlightDispatch == 2

\* clicks on navigation buttons in a behaviour of SpecFlight
MaxClicks == 1

\* recognition.onresult
FlightResult(raw) ==
    /\ now < MaxFlightDispatch
    /\ OnResult(raw)
    /\ awaiting' = awaiting \o AwaitedOf(issued')
    /\ event' = "result"
    /\ UNCHANGED <<failed, announced>>
    /\ UNCHANGED_Speech

\* onclick of a navigation button: showSection(sectionId)
NavButton(sectionId) ==
    /\ gestures < MaxClicks
    /\ Step(showSection(Cur, sectionId))
    /\ gestures' = gestures + 1
    /\ event' = "navigate"
    /\ UNCHANGED <<awaiting, failed, announced>>
    /\ UNCHANGED <<isListening, recognition, isSpeaking, synthesis, uttering, interrupted,
                   statusRegion, alertRegion, ltmEnabled, ltmPatterns, probing,
                   brandInput, normalized,
                   panelExpanded, autoAnnouncements, speechRate, speechVolume>>

NextFlight ==
    \/ \E raw \in FlightUtterances : FlightResult(raw)
    \/ \E sectionId \in {Overview, WebFilters} : NavButton(sectionId)
    \/ DataTimeout
    \/ \E i \in 1..Len(awaiting) : \E answer \in Answers(awaiting[i].then) : Responded(i, answer)

SpecFlight == Init /\ [][NextFlight]_vars

(***************************************************************************)
(* The deferred work of a store investigation in time.  The browser runs   *)
(* every timer that was set, and every fetch settles: it returns or it     *)
(* throws.  Further utterances and go-back may arrive between the steps.   *)
(***************************************************************************)
OrderUtterances ==
    { <<"I","n","v","e","s","t","i","g","a","t","e"," ","B","W","W"," ","s","t","o","r","e"," ","1","5","5">>, <<"g","o"," ","b","a","c","k"," ">> }

\* utterances dispatched in a behaviour of SpecOrder
MaxOrderDispatch == 3

\* recognition.onresult, also while deferred work is pending
OrderResult(raw) ==
    /\ now < MaxOrderDispatch
    /\ OnResult(raw)
    /\ awaiting' = awaiting \o AwaitedOf(issued')
    /\ announced' = announced \cup ResultsIn(spoken')
    /\ event' = "result"
    /\ UNCHANGED failed
    /\ UNCHANGED_Speech

Settled == \E i \in 1..Len(awaiting) : \E answer \in Answers(awaiting[i].then) :
               Responded(i, answer)

NextOrder ==
    \/ \E raw \in OrderUtterances : OrderResult(raw)
    \/ DataTimeout
    \/ Settled

SpecOrder == Init /\ [][NextOrder]_vars /\ WF_vars(DataTimeout) /\ WF_vars(Settled)

(***************************************************************************)
(* The keyboard shortcuts and the voice settings of the accessibility      *)
(* panel (VoiceAccessibility), beside recognition sessions and the speech  *)
(* service.                                                                *)
(***************************************************************************)
\* speak(): the utterance made for a call; utterance.rate = options.rate || 0.9
\* and utterance.volume = options.volume || 0.8.  Numbers are written as
\* JavaScript prints them.
SpeechSynthesisUtterance(call) ==
    [msg |-> call.msg,
     rate |-> IF call.rate = "default" THEN "0.9" ELSE call.rate,
     volume |-> IF call.volume = "default" THEN "0.8" ELSE call.volume]

\* announceShortcut(message)
announceShortcut(s, message) == IF autoAnnouncements THEN speak(s, message, << >>) ELSE s

\* VoiceInterface.toggleVoice() up to its call of stopListening
toggleVoice(s) ==
    LET s1 == [s EXCEPT !.isEnabled = ~s.isEnabled]
    IN IF s1.isEnabled
       THEN speak(s1, "Voice interface enabled", << >>)
       ELSE speak(s1, "Voice interface disabled", << >>)

\* togglePanel() after the class 'expanded' has been toggled
togglePanel(s) ==
    IF autoAnnouncements
    THEN speak(s, IF ~panelExpanded THEN "Accessibility panel opened"
                  ELSE "Accessibility panel closed", << >>)
    ELSE s

\* the chords Ctrl+Shift+V, L, S, H, A
Chords == {"v", "l", "s", "h", "a"}

\* a listener that hands Ctrl+Shift+H to the phrase table as the command 'help'
keydownByMatcher(s, key) ==
    CASE key = "v" -> announceShortcut(toggleVoice(called(s, "toggleVoice", << >>)),
                                       "Voice interface toggled")
      [] key = "l" -> announceShortcut(startListening(called(s, "startListening", << >>)).s,
                                       "Voice listening started")
      [] key = "s" -> announceShortcut(called(s, "stopSpeaking", << >>), "Speech stopped")
      [] key = "h" -> CallCommand(speak(s, "Command recognized", << >>),
                                  voiceCommands[CHOOSE k \in 1..Len(voiceCommands) :
                                                    voiceCommands[k].key = <<"h","e","l","p">>])
      [] key = "a" -> togglePanel(called(s, "togglePanel", << >>))

\* the keydown listener of setupKeyboardShortcuts for a chord: what it calls
\* and says (the call log also records the direct action)
keydown(s, key) ==
    CASE key = "v" -> announceShortcut(toggleVoice(called(s, "toggleVoice", << >>)),
                                       "Voice interface toggled")
      [] key = "l" -> announceShortcut(startListening(called(s, "startListening", << >>)).s,
                                       "Voice listening started")
      [] key = "s" -> announceShortcut(called(s, "stopSpeaking", << >>), "Speech stopped")
      [] key = "h" -> announceVoiceHelp(called(s, "announceVoiceHelp", << >>))
      [] key = "a" -> togglePanel(called(s, "togglePanel", << >>))

\* chords pressed and settings changed in a behaviour of SpecKeys
MaxKeys == 2

UNCHANGED_Regions ==
    UNCHANGED <<statusRegion, alertRegion, awaiting, failed, announced,
                ltmEnabled, ltmPatterns, probing, brandInput, normalized>>

\* keydown with Ctrl and Shift held (this.keyboardShortcuts is never reset)
Shortcut(key) ==
    /\ gestures < MaxKeys
    /\ Step(keydown(Cur, key))
    /\ recognition' = CASE key = "v" /\ isEnabled -> stopListening(recognition)
                        [] key = "l" -> startListening(Cur).r
                        [] OTHER -> recognition
    /\ isListening' = isListening
    /\ AudioBecomes(Uttered(IF key = "s" THEN stopSpeaking(Audio) ELSE Audio, spoken'))
    /\ panelExpanded' = IF key = "a" THEN ~panelExpanded ELSE panelExpanded
    /\ gestures' = gestures + 1
    /\ event' = "keydown"
    /\ UNCHANGED <<autoAnnouncements, speechRate, speechVolume>>
    /\ UNCHANGED_Regions

\* values of the sliders #speechRate (0.5 to 2) and #speechVolume (0.1 to 1)
SliderRates   == {"0.5", "1.5"}
SliderVolumes == {"0.3", "1"}

\* onchange of #speechRate: updateSpeechRate(this.value)
updateSpeechRate(rate) ==
    /\ gestures < MaxKeys
    /\ speechRate' = rate
    /\ Step(speakRate(Cur, "Speech rate updated", << >>, rate))
    /\ Heard
    /\ gestures' = gestures + 1
    /\ event' = "rate"
    /\ UNCHANGED <<isListening, recognition, panelExpanded, autoAnnouncements, speechVolume>>
    /\ UNCHANGED_Regions

\* onchange of #speechVolume: updateSpeechVolume(this.value)
updateSpeechVolume(volume) ==
    /\ gestures < MaxKeys
    /\ speechVolume' = volume
    /\ Step(speakVolume(Cur, "Volume updated", << >>, volume))
    /\ Heard
    /\ gestures' = gestures + 1
    /\ event' = "volume"
    /\ UNCHANGED <<isListening, recognition, panelExpanded, autoAnnouncements, speechRate>>
    /\ UNCHANGED_Regions

\* onchange of #autoAnnouncements: toggleAutoAnnouncements(this.checked)
toggleAutoAnnouncements(enabled) ==
    /\ gestures < MaxKeys
    /\ enabled = ~autoAnnouncements
    /\ autoAnnouncements' = enabled
    /\ Step(speak(Cur, IF enabled THEN "Auto announcements enabled"
                       ELSE "Auto announcements disabled", << >>))
    /\ Heard
    /\ gestures' = gestures + 1
    /\ event' = "announcements"
    /\ UNCHANGED <<isListening, recognition, panelExpanded, speechRate, speechVolume>>
    /\ UNCHANGED_Regions

\* utterances the service hears in SpecKeys
KeyUtterances == { <<"I","n","v","e","s","t","i","g","a","t","e"," ","B","W","W"," ","s","t","o","r","e"," ","1","5","5">> }

\* a deferred callback runs; Math.random gives the middle sample
KeysTimeout ==
    /\ \E i \in 1..Len(timers) : FireTimer(i, Undefined, 17)
    /\ Heard
    /\ event' = "timeout"
    /\ UNCHANGED <<isListening, recognition, gestures>>
    /\ UNCHANGED_Rest

NextKeys ==
    \/ \E key \in Chords : Shortcut(key)
    \/ \E rate \in SliderRates : updateSpeechRate(rate)
    \/ \E volume \in SliderVolumes : updateSpeechVolume(volume)
    \/ \E enabled \in BOOLEAN : toggleAutoAnnouncements(enabled)
    \/ OnStart
    \/ \E raw \in KeyUtterances : OnSessionResult(raw)
    \/ OnEnd
    \/ UtteranceStart
    \/ UtteranceEnd
    \/ KeysTimeout

SpecKeys == Init /\ [][NextKeys]_vars

(***************************************************************************)
(* Properties.                                                             *)
(***************************************************************************)
\* the state is the one a dispatch has just produced
Dispatched == transcript # Undefined

\* the entry getCurrentContext returns
Top(stack) == stack[Len(stack)]

\* the step dispatches an utterance whose handler pushes a context entry
Pushes ==
    /\ now' = now + 1
    /\ contextStack' # << >>
    /\ Top(contextStack').timestamp = now'

Lowest(S) == CHOOSE k \in S : \A j \in S : k <= j

\* C1: after any sequence of dispatched utterances (the six context-pushing
\* intents, show-more and go-back in any order) the context stack never
\* holds more than 10 entries.
C1_StackAtMostTen == Len(contextStack) <= 10

\* an utterance was pushed onto a full stack: ten entries, the first one gone
C1_PushedOntoFullStack ==
    /\ Len(contextStack) = 10
    /\ Top(contextStack).timestamp = now
    /\ contextStack[1].timestamp > 1
    /\ now > 10

\* C2: a push that makes the stack exceed 10 entries drops exactly the oldest
\* entry and keeps the others in order (a push onto fewer than 10 drops
\* nothing); no step brings back an entry that has left the stack, and the
\* oldest entry held only ever gets younger, so that after the 11th push no
\* sequence of go-back commands makes the first-pushed entry current again.
C2_Step ==
    /\ (Pushes /\ Len(contextStack) = 10) =>
           contextStack' = Append(Tail(contextStack), Top(contextStack'))
    /\ (Pushes /\ Len(contextStack) < 10) =>
           contextStack' = Append(contextStack, Top(contextStack'))
    /\ \A k \in 1..Len(contextStack') :
           \/ contextStack'[k].timestamp = now' /\ now' = now + 1
           \/ \E j \in 1..Len(contextStack) : contextStack[j] = contextStack'[k]
    /\ contextStack # << >> =>
           /\ contextStack' # << >>
           /\ contextStack'[1].timestamp >= contextStack[1].timestamp

C2_OldestDroppedForGood == [][C2_Step]_vars

\* after eleven pushes, go-back has walked down to the last entry left, which
\* is the second one pushed
C2_WalkedBackAfterEviction ==
    /\ now > 11
    /\ Dispatched /\ invoked # << >> /\ invoked[1].fn = "handleGoBack"
    /\ Len(contextStack) = 1
    /\ contextStack[1].timestamp = 2

(***************************************************************************)
(* What an utterance matches, step by step.                                *)
(***************************************************************************)
\* registered patterns that match transcript t
Grammar(t) == {k \in 1..Len(commandPatterns) : PatternMatches[t][k].ok}

\* table keys equal to t
ExactKeys(t) == {k \in 1..Len(voiceCommands) : voiceCommands[k].key = t}

\* table keys that contain t or are contained in it
SubstringKeys(t) ==
    {k \in 1..Len(voiceCommands) :
        Includes(t, voiceCommands[k].key) \/ Includes(voiceCommands[k].key, t)}

TableCall(k) == [fn |-> voiceCommands[k].action, args |-> <<voiceCommands[k].arg>>]

GrammarCall(t, k) == [fn |-> commandPatterns[k].handler, args |-> PatternMatches[t][k].g]

\* the call of the first fallback extractor that matches t, if one does
FallbackCalls(t) ==
    LET store  == Match(t, StoreInvestigationMatch)
        search == Match(t, LogSearchMatch)
    IN IF store.ok
       THEN <<[fn |-> "executeStoreInvestigation",
               args |-> <<normalizeBrandName(store.g[1]), store.g[2]>>]>>
       ELSE IF search.ok
       THEN <<[fn |-> "executeLogSearch",
               args |-> <<search.g[1], OrElse(parseTimeframe(search.g[2]), <<"2","4","h">>)>>]>>
       ELSE << >>

\* the calls a dispatch of t makes when the grammar scan comes first
GrammarFirst ==
    [t \in Transcripts |->
        IF Grammar(t) # {} THEN <<GrammarCall(t, Lowest(Grammar(t)))>>
        ELSE IF ExactKeys(t) # {} THEN <<TableCall(Lowest(ExactKeys(t)))>>
        ELSE IF SubstringKeys(t) # {} THEN <<TableCall(Lowest(SubstringKeys(t)))>>
        ELSE FallbackCalls(t)]

\* the calls a dispatch of t makes when the phrase table comes first
TableFirst ==
    [t \in Transcripts |->
        IF ExactKeys(t) # {} THEN <<TableCall(Lowest(ExactKeys(t)))>>
        ELSE IF SubstringKeys(t) # {} THEN <<TableCall(Lowest(SubstringKeys(t)))>>
        ELSE IF Grammar(t) # {} THEN <<GrammarCall(t, Lowest(Grammar(t)))>>
        ELSE FallbackCalls(t)]

\* C3 as the specification states it: every utterance is resolved in the order
\* exact-phrase table, substring match against the table keys, grammar scan,
\* fallback extractors, and an utterance equal to a table key always runs
\* that key's table action.
C3_TableBeforeGrammar == Dispatched => invoked = TableFirst[transcript]

\* C3, amended: every utterance is resolved in the order grammar scan,
\* exact-phrase table, substring match against the table keys, fallback
\* extractors, the first step that succeeds being the one whose action runs;
\* an utterance equal to a table key runs that key's table action only when
\* no grammar pattern matches it.
C3_GrammarBeforeTable == Dispatched => invoked = GrammarFirst[transcript]

\* an utterance that is a table key and matches a pattern ran the pattern's handler
C3_KeyTakenByGrammar ==
    /\ Dispatched
    /\ ExactKeys(transcript) # {}
    /\ Grammar(transcript) # {}
    /\ invoked # << >>
    /\ invoked[1].fn = "handleSystemStatus"

\* C4: every dispatched utterance invokes at most one handler or table
\* action: once a resolution step has fired, no later step and no later
\* pattern is tried.
C4_AtMostOneCall == Len(invoked) <= 1

\* an utterance that a pattern, a table key by substring and a fallback
\* extractor all match has made one call
C4_OneOfSeveralSteps ==
    /\ Dispatched
    /\ Grammar(transcript) # {}
    /\ SubstringKeys(transcript) # {}
    /\ FallbackCalls(transcript) # << >>
    /\ Len(invoked) = 1

\* the transcripts that match no table key, exactly or by substring in either
\* direction, no pattern and no fallback extractor
Unmatched ==
    {t \in Transcripts :
        /\ Grammar(t) = {}
        /\ ExactKeys(t) = {}
        /\ SubstringKeys(t) = {}
        /\ FallbackCalls(t) = << >>}

\* C5: dispatching an utterance that matches no table key (exactly or by
\* substring), no pattern and no fallback extractor emits exactly one
\* announcement, the 'Command not recognized' sentence, and leaves the active
\* section, the context stack, the active investigation and every input
\* field unchanged.
C5_Step ==
    (now' = now + 1 /\ transcript' \in Unmatched) =>
        /\ spoken' = <<Msg(NotRecognized, << >>)>>
        /\ UNCHANGED <<currentSection, contextStack, activeInvestigation, fields>>

C5_UnmatchedNotRecognized == [][C5_Step]_vars

\* C6: when several registered patterns match an utterance, the handler
\* invoked is that of the earliest-registered one, whatever the later ones
\* match, and it receives that pattern's captured groups.
C6_EarliestPatternWins ==
    (Dispatched /\ Grammar(transcript) # {}) =>
        \E k \in Grammar(transcript) :
            /\ \A j \in Grammar(transcript) : k <= j
            /\ invoked = <<[fn |-> commandPatterns[k].handler,
                            args |-> PatternMatches[transcript][k].g]>>

\* the emergency pattern and the bulk-operation pattern registered after it
\* both match; the emergency handler ran, with the emergency pattern's capture
C6_EmergencyBeforeBulk ==
    /\ Dispatched
    /\ Cardinality(Grammar(transcript)) = 2
    /\ commandPatterns[Lowest(Grammar(transcript))].handler = "handleEmergencyCommand"
    /\ \E k \in Grammar(transcript) : commandPatterns[k].handler = "handleBulkOperation"
    /\ invoked # << >>
    /\ invoked[1].fn = "handleEmergencyCommand"
    /\ invoked[1].args[1] = <<"c","h","e","c","k"," ","a","l","l"," ","s","t","o","r","e","s">>

\* the canonical brand codes and the display names of the brands
CanonicalCodes == {brandNames[k][1] : k \in 1..Len(brandNames)}
DisplayNames   == {brandNames[k][2] : k \in 1..Len(brandNames)}

\* C7: an utterance of the form 'investigate <brand alias> store <digits>'
\* selects the store-investigation intent: the brand is normalized to its
\* canonical code, storeId is the digit string, the active section becomes
\* 'investigation', one context entry of type 'investigation' is pushed, the
\* investigation that issues the data calls is scheduled, and the
\* announcement holds the store id and the brand's display name.
C7_StoreInvestigation ==
    (Dispatched /\ PatternMatches[transcript][1].ok) =>
        LET g == PatternMatches[transcript][1].g
        IN /\ Len(invoked) = 1
           /\ invoked[1].fn = "handleStoreInvestigation"
           /\ Len(activeInvestigation) = 1
           /\ activeInvestigation[1].brand \in CanonicalCodes
           /\ activeInvestigation[1].storeId = g[2]
           /\ fields["investigationBrand"] \in CanonicalCodes
           /\ fields["investigationStore"] = g[2]
           /\ currentSection = Investigation
           /\ contextStack # << >>
           /\ Top(contextStack).type = "investigation"
           /\ Top(contextStack).timestamp = now
           /\ Top(contextStack).data.brand \in CanonicalCodes
           /\ Top(contextStack).data.storeId = g[2]
           /\ \A k \in 1..(Len(contextStack) - 1) : contextStack[k].timestamp < now
           /\ \E i \in 1..Len(timers) :
                  timers[i].cb = "runInvestigation; announceInvestigationResults"
           /\ spoken # << >>
           /\ spoken[1].parts[1] \in DisplayNames
           /\ spoken[1].parts[2] = g[2]

\* C8: 'go back' dispatched while the context stack holds one entry or none
\* announces the return to overview, makes 'overview' the active section and
\* pops nothing: the stack is as it was.
C8_Step ==
    (now' = now + 1 /\ transcript' = <<"g","o"," ","b","a","c","k">> /\ Len(contextStack) <= 1) =>
        /\ spoken' # << >>
        /\ spoken'[1] = Msg("Going back to overview", << >>)
        /\ currentSection' = Overview
        /\ contextStack' = contextStack

C8_GoBackAtBottom == [][C8_Step]_vars

\* 'go back' with a single entry left, away from the overview before it
C8_WentBackWithOneEntry ==
    /\ Dispatched /\ transcript = <<"g","o"," ","b","a","c","k">>
    /\ Len(contextStack) = 1
    /\ contextStack[1].type = "investigation"
    /\ currentSection = Overview
    /\ spoken # << >> /\ spoken[1].msg = "Going back to overview"

\* C9: 'show me more details' dispatched while the context stack is empty
\* announces 'No additional details available' and leaves the context stack
\* and the active section unchanged.
C9_Step ==
    (now' = now + 1 /\ transcript' = <<"s","h","o","w"," ","m","e"," ","m","o","r","e"," ","d","e","t","a","i","l","s">> /\ contextStack = << >>) =>
        /\ spoken' = <<Msg("No additional details available", << >>)>>
        /\ contextStack' = << >>
        /\ currentSection' = currentSection

C9_ShowMoreOnEmptyStack == [][C9_Step]_vars

\* show-more with nothing on the stack, on a section other than the overview
C9_NothingToShow ==
    /\ Dispatched /\ transcript = <<"s","h","o","w"," ","m","e"," ","m","o","r","e"," ","d","e","t","a","i","l","s">>
    /\ contextStack = << >>
    /\ currentSection = FortiAnalyzer
    /\ spoken = <<Msg("No additional details available", << >>)>>

\* C10: right after a handler has pushed a context entry, popping the entry
\* and restoring it reproduces the active section and the input fields
\* (brand and store among them) held before the pop.
C10_RoundTrip ==
    (Dispatched /\ contextStack # << >> /\ Top(contextStack).timestamp = now) =>
        LET popped   == Top(contextStack)
            restored == restoreContext(
                            [Cur EXCEPT !.contextStack = SubSeq(@, 1, Len(@) - 1)],
                            <<popped>>)
        IN /\ restored.currentSection = currentSection
           /\ restored.fields = fields

\* a store investigation has pushed its entry on top of an earlier one
C10_InvestigationPushed ==
    /\ Dispatched
    /\ Len(contextStack) = 2
    /\ Top(contextStack).timestamp = now
    /\ Top(contextStack).type = "investigation"
    /\ contextStack[1].type = "log-search"
    /\ fields["investigationBrand"] = <<"B","W","W">>
    /\ fields["investigationStore"] = <<"1","5","5">>

\* C11: restoring a context entry is idempotent and starts nothing: applying
\* one entry twice leaves the active section and the input fields as applying
\* it once does, and neither the restore nor a 'go back' that performs it
\* issues a data call or schedules the work of the intent that pushed it.
C11_RestoreIdempotentAndCallFree ==
    /\ \A i \in 1..Len(contextStack) :
           LET once  == restoreContext(Cur, <<contextStack[i]>>)
               twice == restoreContext(once, <<contextStack[i]>>)
           IN /\ twice.currentSection = once.currentSection
              /\ twice.fields = once.fields
              /\ once.issued = << >>
              /\ once.timers = timers
    /\ (Dispatched /\ spoken # << >> /\ spoken[1].msg = "Going back to previous view")
           => issued = << >>

\* 'go back' has restored a store investigation whose own work has long run
C11_RestoredInvestigation ==
    /\ Dispatched /\ transcript = <<"g","o"," ","b","a","c","k">>
    /\ spoken # << >> /\ spoken[1].msg = "Going back to previous view"
    /\ contextStack # << >> /\ Top(contextStack).type = "investigation"
    /\ currentSection = Investigation
    /\ fields["investigationBrand"] = Top(contextStack).data.brand
    /\ timers = << >>

\* C12: audio is serialised last-writer-wins: the speech service never holds
\* more than one announcement (queued or spoken), and after a step that
\* announced something it holds exactly the announcement issued last.
C12_LastWriterWins ==
    /\ Len(synthesis) <= 1
    /\ (event # "load" /\ spoken # << >>) => synthesis = <<spoken[Len(spoken)]>>

\* C13: at most one recognition session at a time: a start-listening request
\* (button or Ctrl+Shift+L) made while the service's session is not inactive
\* stops that session; it never issues a second recognition.start(), which
\* the service would refuse ('Error starting voice recognition').
C13_Step ==
    (event' = "listen" /\ gestures' = gestures + 1 /\ recognition # "inactive") =>
        /\ recognition' \in {"stopping", "ending"}
        /\ \A k \in 1..Len(spoken') : spoken'[k].msg # "Error starting voice recognition"

C13_OneSession == [][C13_Step]_vars

\* C14: every announcement is also written to both live regions, the polite
\* status region and the assertive alert region, whatever becomes of its
\* audio: after a step that announced something both regions hold the text
\* announced last.
C14_LiveRegionsFollow ==
    (event # "load" /\ spoken # << >>) =>
        /\ statusRegion = <<spoken[Len(spoken)]>>
        /\ alertRegion = <<spoken[Len(spoken)]>>

\* the generic failure sentence of each data-calling intent
FailureSentence ==
    [intent \in {"store investigation", "threat intelligence", "report generation",
                 "system status"} |->
        CASE intent = "store investigation" -> "Investigation failed"
          [] intent = "threat intelligence" -> "Error loading threat intelligence"
          [] intent = "report generation"   -> "Error generating report"
          [] OTHER                          -> StatusUnavailable]

\* C15: when a data call made for an intent fails (transport error or a
\* body with success=false), the step that handles the failure announces
\* the intent's generic failure sentence and nothing else, and no result or
\* success announcement is made for an intent whose call has failed; for
\* store investigation, threat intelligence, report generation and system
\* status alike.
C15_FailureAnnounced ==
    /\ event = "thrown" =>
           spoken \in {<<Msg(FailureSentence[intent], << >>)>> : intent \in failed}
    /\ failed \cap announced = {}

\* the section each pushing intent navigates to and the type of entry it pushes
Pushed ==
    [intent \in {"store investigation", "threat intelligence", "report generation"} |->
        CASE intent = "store investigation" ->
                 [section |-> Investigation, type |-> "investigation"]
          [] intent = "threat intelligence" ->
                 [section |-> FortiAnalyzer, type |-> "threat-intelligence"]
          [] OTHER -> [section |-> FortiAnalyzer, type |-> "report-generation"]]

\* C16: the failure of a handler's data call rolls nothing back: the step
\* that handles it leaves the active section, the context stack and the
\* input fields as they were, and from then on the section is still the one
\* the handler set and the entry the handler pushed is still the top of the
\* stack, with its type and the time of its push.
C16_Step ==
    /\ event' = "thrown" =>
           /\ currentSection' = currentSection
           /\ contextStack' = contextStack
           /\ fields' = fields
    /\ \A intent \in failed' \cap DOMAIN Pushed :
           /\ currentSection' = Pushed[intent].section
           /\ contextStack' # << >>
           /\ Top(contextStack').type = Pushed[intent].type
           /\ Top(contextStack').timestamp = now'

C17_UnavailableAnnounced ==
    (transcript \in LTMTranscripts /\ ~ltmEnabled)
        => /\ spoken = <<Msg(NotAvailable, << >>)>>
           /\ issued = << >>

\* C18: a recognition error announces exactly one sentence, the one of its
\* code's class (no-speech, network, not-allowed, any other code), sets
\* isListening to false, calls no handler and leaves the context stack and
\* the active section as they were.
C18_Step ==
    event' \in ErrorCodes =>
        /\ spoken' = << Msg(CASE event' = "no-speech" -> "No speech detected. Please try again."
                              [] event' = "network" ->
                                     "Network error. Please check your connection."
                              [] event' = "not-allowed" ->
                                     "Microphone access denied. Please enable microphone permissions."
                              [] OTHER -> "Voice recognition error. Please try again.",
                            << >>) >>
        /\ ~isListening'
        /\ invoked' = << >>
        /\ transcript' = Undefined
        /\ contextStack' = contextStack
        /\ currentSection' = currentSection
        /\ activeInvestigation' = activeInvestigation

C18_ErrorsAreAnnouncedOnly == [][C18_Step]_vars

\* an error of a code outside the three named ones, met with a context on
\* the stack and a section other than the first one showing
C18_ErrorAfterContext ==
    /\ event = "aborted"
    /\ contextStack # << >>
    /\ currentSection # Overview
    /\ spoken = <<Msg("Voice recognition error. Please try again.", << >>)>>

\* the engine accepts a start request: no session is open and the flag is down
Idle == ~isListening /\ recognition = "inactive"

\* a start request made in the idle state opens a session
C19_Accepts ==
    (Idle /\ event' = "listen" /\ gestures' = gestures + 1) => recognition' = "starting"

ThreatsAnnounced ==
    event = "returned" /\ spoken # << >> /\ spoken[Len(spoken)].msg = ThreatSummary

TotalAnnounced   == parseInt(spoken[Len(spoken)].parts[1])
BlockedAnnounced == parseInt(spoken[Len(spoken)].parts[2])
RateAnnounced    == parseInt(spoken[Len(spoken)].parts[3])
TierAnnounced    == spoken[Len(spoken)].parts[4]

\* C20 as stated: the tier is 'Excellent threat protection' exactly when
\* blocked / max(total, 1) is greater than 95%, 'Good threat protection'
\* exactly when it is greater than 90% and not greater than 95%, and
\* 'Consider reviewing security policies' otherwise.
C20_TiersByExactRate ==
    ThreatsAnnounced =>
        LET total   == MathMax(TotalAnnounced, 1)
            blocked == BlockedAnnounced
        IN TierAnnounced =
               IF 100 * blocked > 95 * total THEN "Excellent threat protection."
               ELSE IF 100 * blocked > 90 * total THEN "Good threat protection."
               ELSE "Consider reviewing security policies."

\* C20 amended: the rate announced is blocked / max(total, 1) as a percentage
\* rounded to a nearest whole number, and the tier follows that number: above
\* 95 'Excellent threat protection', above 90 and up to 95 'Good threat
\* protection', otherwise 'Consider reviewing security policies'.
C20_TiersByRoundedRate ==
    ThreatsAnnounced =>
        LET total   == MathMax(TotalAnnounced, 1)
            blocked == BlockedAnnounced
            rate    == RateAnnounced
        IN /\ 2 * (rate * total - 100 * blocked) <= total
           /\ 2 * (100 * blocked - rate * total) <= total
           /\ TierAnnounced =
                  IF rate > 95 THEN "Excellent threat protection."
                  ELSE IF rate > 90 THEN "Good threat protection."
                  ELSE "Consider reviewing security policies."

\* 20 of 21 threats blocked: more than 95%, announced as 95% and as good
C20_RoundedDown ==
    /\ ThreatsAnnounced
    /\ TotalAnnounced = 21 /\ BlockedAnnounced = 20
    /\ RateAnnounced = 95
    /\ TierAnnounced = "Good threat protection."

(***************************************************************************)
(* C21: a threat summary without threats.                                   *)
(***************************************************************************)
\* summaries whose total and blocked counts are zero or missing
ZeroSummaries ==
    { [total_threats |-> 0, blocked_threats |-> 0], << >>,
      [total_threats |-> 0], [blocked_threats |-> 0] }

C21_Step ==
    \A threats \in ZeroSummaries :
        ThreatsReported(threats) =>
            /\ Divisor(threats) # 0
            /\ ThreatsAnnounced'
            /\ TotalAnnounced' = 0 /\ BlockedAnnounced' = 0
            /\ RateAnnounced' = 0
            /\ TierAnnounced' = "Consider reviewing security policies."

\* C21: when the threat-intelligence call returns a summary whose
\* total_threats and blocked_threats are both zero, or both missing, the
\* announcer divides by a number that is not zero, announces a block rate of
\* 0% and closes with the lowest tier, 'Consider reviewing security policies'.
C21_NoThreatsIsZeroPercent == [][C21_Step]_vars

\* an announcement of no threats, none blocked, 0%, lowest tier
C21_NoThreatsAnnounced ==
    /\ ThreatsAnnounced
    /\ TotalAnnounced = 0 /\ BlockedAnnounced = 0
    /\ RateAnnounced = 0
    /\ TierAnnounced = "Consider reviewing security policies."

(***************************************************************************)
(* C22: brand normalization.                                                *)
(***************************************************************************)
\* the two copies return the same value for the argument
CopiesAgree == \A k \in 1..Len(normalized) : normalized[k][1] = normalized[k][2]

\* word is alias with some letters in the other case
IsCasingOf(word, alias) ==
    /\ Len(word) = Len(alias)
    /\ \A k \in 1..Len(alias) : word[k] \in {UpperChar(alias[k]), LowerChar(alias[k])}

\* an alias written in any casing is normalized as the alias is
CaseInvariant ==
    normalized # << >> =>
        \A a \in Aliases :
            IsCasingOf(brandInput, a) => normalized[1][1] = normalizeBrandName(a)

\* normalizing what the function returned returns it again
Idempotent == Len(normalized) = 2 => normalized[2] = normalized[1]

\* C22: normalizeBrandName gives every casing of an alias the code of the
\* alias, normalizing any returned value again, for an alias or for an
\* unknown input, returns that same value, and the copies in VoiceCommands
\* and in VoiceInterface return the same value for every input.
C22_CaseInvariantIdempotentAgreed == CaseInvariant /\ Idempotent /\ CopiesAgree

(***************************************************************************)
(* C23: the Escape key.                                                     *)
(***************************************************************************)
\* C23: once a press of the Escape key has been handled, whatever the state
\* it was pressed in, the speech service holds no announcement, neither one
\* being spoken nor one queued, and no recognition session is listening.
C23_EscapeStopsAllVoice ==
    event = "escape" =>
        /\ synthesis = << >>
        /\ recognition # "listening" /\ ~isListening

(***************************************************************************)
(* C24: navigation while a data call is outstanding.                        *)
(***************************************************************************)
\* the continuations of the threat-intelligence and report-generation handlers
InFlight == {"handleThreatIntelligence: response", "handleReportGeneration: response"}

\* the step called fn
Calls(log, fn) == \E k \in 1..Len(log) : log[k].fn = fn

\* the step spoke sentence msg
Says(log, msg) == \E k \in 1..Len(log) : log[k].msg = msg

\* a step in which a call of one of the two handlers comes back runs the rest
\* of the handler: a success is rendered, and announced if it has a summary,
\* and a failure is announced
C24_Completes ==
    \A i \in 1..Len(awaiting) : \A answer \in Answers(awaiting[i].then) :
        (awaiting[i].then \in InFlight /\ Responded(i, answer)) =>
            LET threats == awaiting[i].then = "handleThreatIntelligence: response"
            IN /\ (answer.returned /\ answer.success) =>
                      /\ Calls(invoked', IF threats THEN "renderThreatIntelligenceDashboard"
                                         ELSE "renderSecurityReportModal")
                      /\ answer.detail # << >> =>
                             Says(spoken', IF threats THEN ThreatSummary ELSE ReportSummary)
               /\ ~answer.returned =>
                      Says(spoken', IF threats THEN "Error loading threat intelligence"
                                    ELSE "Error generating report")

\* a dispatch or a click on a navigation button leaves the calls awaited
\* before it awaited
C24_KeepsAwaiting ==
    event' \in {"result", "navigate"} =>
        /\ Len(awaiting') >= Len(awaiting)
        /\ SubSeq(awaiting', 1, Len(awaiting)) = awaiting

\* C24: a threat-intelligence or report-generation data call that is
\* outstanding stays outstanding when an utterance, a go-back or a navigation
\* button changes the active section, and when it returns the handler runs
\* to its end, announcing and rendering the result, whatever section is
\* active by then.
C24_NavigationCancelsNothing == [][C24_Completes /\ C24_KeepsAwaiting]_vars

\* a threat summary announced and rendered while another section is active
C24_AnnouncedElsewhere ==
    /\ event = "returned"
    /\ currentSection # FortiAnalyzer
    /\ Says(spoken, ThreatSummary)
    /\ Calls(invoked, "renderThreatIntelligenceDashboard")

(***************************************************************************)
(* C25: whose store the deferred work of an investigation is about.         *)
(***************************************************************************)
InvestigationComplete == "Investigation complete for ${brand} store ${storeId}. ..."

\* the deferred callback of a store-investigation utterance runs the
\* investigation for the brand and store of that utterance
C25_RunsOwnStore ==
    \A i \in 1..Len(timers) : \A n \in Sampled(timers[i].cb) :
        (timers[i].cb = "runInvestigation; announceInvestigationResults"
             /\ FireTimer(i, Undefined, n)) =>
            /\ issued' # << >>
            /\ issued'[1].then = "runInvestigation: healthResponse"
            /\ issued'[1].parts = timers[i].vars

\* the results announcement of a store-investigation utterance names the
\* brand and store of that utterance
C25_AnnouncesOwnStore ==
    \A i \in 1..Len(timers) : \A n \in Sampled(timers[i].cb) :
        (timers[i].cb = "announceInvestigationResults" /\ FireTimer(i, Undefined, n)) =>
            \A k \in 1..Len(spoken') :
                spoken'[k].msg = InvestigationComplete =>
                    /\ spoken'[k].parts[1] = getBrandDisplayName(timers[i].vars[1])
                    /\ spoken'[k].parts[2] = timers[i].vars[2]

\* C25: the deferred run of the investigation that a store-investigation
\* utterance has scheduled uses the brand and store of that utterance, and
\* the 'Investigation complete' announcement it leads to names them, also
\* when another store-investigation utterance or a go-back is dispatched
\* before the timers of the first have fired.
C25_DeferredWorkIsItsOwn == [][C25_RunsOwnStore /\ C25_AnnouncesOwnStore]_vars

(***************************************************************************)
(* C26: when the results of an investigation are announced.                 *)
(***************************************************************************)
\* a data call of runInvestigation has not come back
RunOutstanding ==
    \E k \in 1..Len(awaiting) : IntentOf(awaiting[k].then) = "store investigation"

\* C26: 'Investigation complete' is announced only when every data call of
\* the investigation run has returned and none of them has failed: never
\* while a call of the run is outstanding, never after the run has failed.
C26_CompleteOnlyAfterSuccess ==
    Says(spoken, InvestigationComplete) =>
        /\ ~RunOutstanding
        /\ "store investigation" \notin failed

(***************************************************************************)
(* C27: the speaking flag.                                                  *)
(***************************************************************************)
\* C27: in every reachable state isSpeaking is true exactly when the speech
\* service is speaking an announcement, whatever the order of speak(),
\* stopSpeaking() and the start and end events of the service.
C27_FlagTracksAudio == isSpeaking <=> uttering

(***************************************************************************)
(* C28: recognition sessions and the disabled interface.                    *)
(***************************************************************************)
\* C28: while the voice interface is disabled no recognition session is
\* being started and none is listening, whichever way the session was
\* requested and whenever the interface was switched off.
C28_NoSessionWhileDisabled == ~isEnabled => recognition \notin {"starting", "listening"}

(***************************************************************************)
(* C29: which handlers push a context entry.                                *)
(***************************************************************************)
\* the handlers that show a section when they are dispatched
SectionHandlers ==
    {"handleStoreInvestigation", "handleAdvancedLogSearch", "handleSecurityEvents",
     "handleThreatIntelligence", "handleWebFilterStatus", "handleReportGeneration",
     "handleEmergencyCommand", "handleBulkOperation"}

\* the entries the dispatch of this state has pushed
PushedNow == {k \in 1..Len(contextStack) : contextStack[k].timestamp = now}

\* the parameters of the handler called with captures g, as its entry holds them
Snapshot(fn, g) ==
    CASE fn = "handleStoreInvestigation" ->
             [brand |-> normalizeBrandName(g[1]), storeId |-> g[2], focus |-> g[3]]
      [] fn = "handleAdvancedLogSearch" ->
             [query |-> g[1], context |-> g[2], source |-> g[3],
              timeframe |-> OrElse(parseTimeframe(g[4]), <<"2","4","h">>)]
      [] fn = "handleSecurityEvents" -> [severity |-> g[1], context |-> g[2]]
      [] fn = "handleThreatIntelligence" ->
             [brand |-> normalizeBrandName(g[1]),
              timeframe |-> OrElse(parseTimeframe(g[2]), <<"2","4","h">>)]
      [] fn = "handleWebFilterStatus" ->
             [brand |-> normalizeBrandName(g[1]), storeId |-> g[2]]
      [] fn = "handleReportGeneration" ->
             [reportType |-> OrElse(g[1], <<"s","e","c","u","r","i","t","y">>), brand |-> normalizeBrandName(g[2]),
              storeId |-> g[3], timeframe |-> OrElse(parseTimeframe(g[4]), <<"7","d">>)]
      [] fn = "handleEmergencyCommand" -> [emergencyContext |-> g[1]]
      [] OTHER -> [scope |-> g[1], operation |-> g[2]]

\* C29: the dispatch of an utterance to a handler that shows a section
\* (store investigation, log search, security events, threat intelligence,
\* web-filter status, report generation, emergency alert, bulk operation)
\* pushes exactly one context entry, which holds the handler's parameters and
\* is on the stack before any data call of the handler is issued; the
\* dispatch of show-more or go-back pushes no entry.
C29_SectionHandlersPushOnce ==
    (Dispatched /\ invoked # << >>) =>
        LET fn == invoked[1].fn
        IN /\ fn \in SectionHandlers =>
                  /\ Cardinality(PushedNow) = 1
                  /\ Top(contextStack).timestamp = now
                  /\ Top(contextStack).data = Snapshot(fn, invoked[1].args)
                  /\ \A k \in 1..Len(issued) : issued[k].then = ""
           /\ fn \in {"handleShowMore", "handleGoBack"} => PushedNow = {}

(***************************************************************************)
(* C30: where go-back leads.                                                *)
(***************************************************************************)
\* the section in which the intent of a context entry shows its results
SectionOf(type) ==
    CASE type = "investigation" -> Investigation
      [] type = "log-search" -> LogAnalysis
      [] type = "web-filter-status" -> WebFilters
      [] OTHER -> FortiAnalyzer

\* the page fields hold the brand, store and query of the entry
Reapplied(page, entry) ==
    CASE entry.type = "investigation" ->
             /\ Truthy(entry.data.brand) => page["investigationBrand"] = entry.data.brand
             /\ Truthy(entry.data.storeId) => page["investigationStore"] = entry.data.storeId
      [] entry.type = "log-search" ->
             Truthy(entry.data.query) => page["logSearchQuery"] = entry.data.query
      [] entry.type = "web-filter-status" ->
             Truthy(entry.data.storeId) =>
                 /\ page["webfilterBrand"] = entry.data.brand
                 /\ page["webfilterStoreId"] = entry.data.storeId
      [] OTHER -> TRUE

\* the step dispatches go-back with at least two entries on the stack
GoesBack ==
    /\ transcript' # Undefined
    /\ invoked' # << >> /\ invoked'[1].fn = "handleGoBack"
    /\ Len(contextStack) >= 2

C30_Step ==
    GoesBack =>
        /\ contextStack' = SubSeq(contextStack, 1, Len(contextStack) - 1)
        /\ currentSection' = SectionOf(Top(contextStack').type)
        /\ Reapplied(fields', Top(contextStack'))

\* C30: a go-back dispatched with two or more entries on the stack pops
\* exactly one entry and shows the section of the entry that is now on top
\* ('investigation' for investigation, 'log-analysis' for log-search,
\* 'fortianalyzer' for security-events, threat-intelligence and
\* report-generation, 'webfilters' for web-filter-status), with the brand,
\* store and query of that entry written back to the page.
C30_GoBackShowsPreviousView == [][C30_Step]_vars

(***************************************************************************)
(* C31: the bottom of the context stack.                                    *)
(***************************************************************************)
\* the sentence with which show-more expands an entry of the type
DetailsOf(type) ==
    CASE type = "investigation" -> "Showing detailed investigation results"
      [] type = "threat-intelligence" -> "Showing detailed threat analysis"
      [] type = "security-events" -> "Showing detailed security event analysis"
      [] OTHER -> "No additional details available for current view"

C31_Step ==
    /\ contextStack # << >> => contextStack' # << >>
    /\ (now' = now + 1 /\ transcript' = <<"g","o"," ","b","a","c","k">> /\ Len(contextStack) = 1) =>
           /\ contextStack' = contextStack
           /\ currentSection' = Overview
    /\ (now' = now + 1 /\ transcript' = <<"s","h","o","w"," ","m","e"," ","m","o","r","e"," ","d","e","t","a","i","l","s">> /\ contextStack # << >>) =>
           /\ contextStack' = contextStack
           /\ spoken' = <<Msg("Showing additional details", << >>),
                          Msg(DetailsOf(Top(contextStack).type), << >>)>>

\* C31: a context stack that holds an entry holds one in every later state;
\* a go-back dispatched with one entry left shows the overview and leaves
\* that entry on the stack, and a show-more dispatched afterwards treats it
\* as the current context and expands it.
C31_GoBackNeverEmpties == [][C31_Step]_vars

\* show-more has expanded the entry that go-back left on the stack when it
\* returned to the overview
C31_ExpandedAfterReturn ==
    /\ Dispatched /\ transcript = <<"s","h","o","w"," ","m","e"," ","m","o","r","e"," ","d","e","t","a","i","l","s">>
    /\ currentSection = Overview
    /\ Len(contextStack) = 1
    /\ spoken = <<Msg("Showing additional details", << >>),
                  Msg("Showing detailed investigation results", << >>)>>

(***************************************************************************)
(* C32: the steps of a store investigation in time.                         *)
(***************************************************************************)
InvestigationUtterances ==
    { <<"i","n","v","e","s","t","i","g","a","t","e"," ","b","w","w"," ","s","t","o","r","e"," ","1","5","5">>, <<"i","n","v","e","s","t","i","g","a","t","e"," ","a","r","b","y","'","s"," ","s","t","o","r","e"," ","7"," ","f","o","r"," ","r","e","c","e","n","t"," ","a","l","e","r","t","s">> }

\* brand and store of the utterance of SpecOrder, as its timers carry them
OrderStores == { <<<<"B","W","W">>, <<"1","5","5">>>> }

Pending(cb, v) == \E i \in 1..Len(timers) : timers[i].cb = cb /\ timers[i].vars = v

CountOf(cb, queue) == Cardinality({i \in 1..Len(queue) : queue[i].cb = cb})

\* the step issued the first data call of runInvestigation
RunIssued(calls) ==
    \E k \in 1..Len(calls) : calls[k].then = "runInvestigation: healthResponse"

\* the deferred run of the utterance for store v has fired
Ran(v) == /\ event = "timeout"
          /\ RunIssued(issued)
          /\ Pending("announceInvestigationResults", v)

C32_Step ==
    \* the utterance: section and fields, a timer for the run, no data call
    /\ (now' = now + 1 /\ transcript' \in InvestigationUtterances) =>
           /\ currentSection' = Investigation
           /\ activeInvestigation' # << >>
           /\ fields'["investigationBrand"] = activeInvestigation'[1].brand
           /\ fields'["investigationStore"] = activeInvestigation'[1].storeId
           /\ Truthy(fields'["investigationBrand"]) /\ Truthy(fields'["investigationStore"])
           /\ CountOf("runInvestigation; announceInvestigationResults", timers')
                  = CountOf("runInvestigation; announceInvestigationResults", timers) + 1
           /\ issued' = << >>
           /\ ~Says(spoken', InvestigationComplete)
    \* the run: fires from that timer, finds the fields filled, reads them
    \* and issues its first data call for them
    /\ \A i \in 1..Len(timers) : \A n \in Sampled(timers[i].cb) :
           (timers[i].cb = "runInvestigation; announceInvestigationResults"
                /\ FireTimer(i, Undefined, n)) =>
               /\ Truthy(fields["investigationBrand"]) /\ Truthy(fields["investigationStore"])
               /\ RunIssued(issued')
               /\ issued'[1].parts = <<fields["investigationBrand"], fields["investigationStore"]>>
               /\ ~Says(spoken', InvestigationComplete)
    /\ RunIssued(issued') =>
           CountOf("runInvestigation; announceInvestigationResults", timers')
               = CountOf("runInvestigation; announceInvestigationResults", timers) - 1
    \* the announcement: only from the timer that a run has set
    /\ CountOf("announceInvestigationResults", timers')
           > CountOf("announceInvestigationResults", timers) => RunIssued(issued')
    /\ Says(spoken', InvestigationComplete) =>
           CountOf("announceInvestigationResults", timers')
               = CountOf("announceInvestigationResults", timers) - 1

\* C32: a store-investigation utterance sets the section and fills the brand
\* and store fields and issues no data call; the run fires later from its
\* timer, finds the fields filled and issues its first data call for the
\* values it reads; the results are announced only from the timer a run has
\* set; and after the utterance the run eventually fires, and after the run
\* the results are eventually announced.
C32_InOrder ==
    /\ [][C32_Step]_vars
    /\ \A v \in OrderStores :
           /\ Pending("runInvestigation; announceInvestigationResults", v) ~> Ran(v)
           /\ Ran(v) ~> Says(spoken, InvestigationComplete)

\* the results are announced after a go-back arrived between the steps
C32_AnnouncedAfterAll ==
    /\ event = "timeout"
    /\ Says(spoken, InvestigationComplete)
    /\ currentSection = Overview
    /\ timers = << >>

(***************************************************************************)
(* C33: the pattern list after construction.                                *)
(***************************************************************************)
\* the list processVoiceCommand scans: the patterns of setupAdvancedCommands
\* followed by those setupLTMCommands has registered
ScannedPatterns(registered) ==
    commandPatterns \o [k \in 1..Len(registered) |-> ltmCommandPatterns[registered[k]]]

\* C33: once the VoiceCommands constructor has returned, no step adds a
\* pattern to the pattern list, removes one from it or reorders it, so
\* every dispatch scans the same ordered list.
C33_GrammarFixed == [][ScannedPatterns(ltmPatterns') = ScannedPatterns(ltmPatterns)]_vars

(***************************************************************************)
(* C34: the substring step of the phrase table.                             *)
(***************************************************************************)
\* C34: an utterance that reaches the table steps (no pattern matches it),
\* that no table key equals, and that contains a key or is contained in
\* one, runs the action of the first such key in table insertion order and
\* nothing else; so do fragments of a key and the empty utterance.
C34_FirstSubstringKey ==
    (Dispatched /\ Grammar(transcript) = {} /\ ExactKeys(transcript) = {}
         /\ SubstringKeys(transcript) # {}) =>
        /\ invoked = <<TableCall(Lowest(SubstringKeys(transcript)))>>
        /\ spoken # << >>
        /\ spoken[1] = Msg("Command recognized", << >>)

\* the empty utterance, contained in every key, ran the action of the first
\* key of the table, 'show overview'
C34_EmptyRanFirstKey ==
    /\ Dispatched /\ transcript = << >>
    /\ Cardinality(SubstringKeys(transcript)) = Len(voiceCommands)
    /\ voiceCommands[1].key = <<"s","h","o","w"," ","o","v","e","r","v","i","e","w">>
    /\ invoked = <<TableCall(1)>>

(***************************************************************************)
(* C35: what the log-search pattern captures.                               *)
(***************************************************************************)
\* the phrases of 'search for malware in the last week': Q and the code of T
SearchPhrases ==
    [utterance |-> <<"s","e","a","r","c","h"," ","f","o","r"," ","m","a","l","w","a","r","e"," ","i","n"," ","t","h","e"," ","l","a","s","t"," ","w","e","e","k">>,
     query |-> <<"m","a","l","w","a","r","e">>, timeframe |-> <<"7","d">>]

\* C35: for an utterance 'search [for] Q [in C] [from S] [in the last T]' the
\* log-search handler writes the whole phrase Q to the query field and the
\* code of T to the timeframe field, '24h' only when T is absent.
C35_WholeQueryCaptured ==
    (Dispatched /\ transcript = SearchPhrases.utterance) =>
        /\ Calls(invoked, "handleAdvancedLogSearch")
        /\ fields["logSearchQuery"] = SearchPhrases.query
        /\ fields["logSearchTimeframe"] = SearchPhrases.timeframe

(***************************************************************************)
(* C36: the brand phrases of the grammar.                                   *)
(***************************************************************************)
\* what the alternation (bww|buffalo wild wings|arbys?|arby'?s|sonic) captures
CapturedBrands ==
    { <<"b","w","w">>, <<"b","u","f","f","a","l","o"," ","w","i","l","d"," ","w","i","n","g","s">>, <<"a","r","b","y">>, <<"a","r","b","y","s">>, <<"a","r","b","y","'","s">>, <<"s","o","n","i","c">> }

\* C36: every brand phrase the brand-taking patterns can capture is
\* normalized, by the copy of either class, to one of the three canonical
\* codes BWW, ARBYS, SONIC.
C36_CapturedBrandsCanonical ==
    (brandInput \in CapturedBrands /\ normalized # << >>) =>
        /\ normalized[1][1] \in CanonicalCodes
        /\ normalized[1][2] \in CanonicalCodes

(***************************************************************************)
(* C37: the range of the announced block rate.                              *)
(***************************************************************************)
\* C37: the block rate announced for threat intelligence is a whole
\* percentage from 0 to 100 for every payload, also when total_threats is
\* missing, zero or smaller than blocked_threats.
C37_RateIsAPercentage == ThreatsAnnounced => RateAnnounced \in 0..100

(***************************************************************************)
(* C38: the keyboard shortcuts.                                             *)
(***************************************************************************)
\* the direct action of each chord
DirectAction ==
    [v |-> "toggleVoice", l |-> "startListening", s |-> "stopSpeaking",
     h |-> "announceVoiceHelp", a |-> "togglePanel"]

C38_Step ==
    \A key \in Chords :
        Shortcut(key) =>
            /\ invoked' = <<[fn |-> DirectAction[key], args |-> << >>]>>
            /\ transcript' = Undefined
            /\ UNCHANGED <<contextStack, activeInvestigation, currentSection>>
            /\ key = "v" => isEnabled' = ~isEnabled
            /\ key = "l" => (~isListening /\ recognition = "inactive" => recognition' = "starting")
            /\ key = "s" => ~isSpeaking'
            /\ key = "h" => Says(spoken', "Voice commands available: ...")
            /\ key = "a" => panelExpanded' = ~panelExpanded

\* C38: each of the chords Ctrl+Shift+V, L, S, H, A calls its own direct
\* action (toggle voice, start listening, stop speaking, voice help, toggle
\* accessibility panel) and nothing else: no utterance is dispatched, no
\* intent handler or table action is called, and the context stack, the
\* active investigation and the active section stay as they were.
C38_ShortcutsBypassMatcher == [][C38_Step]_vars

\* the panel chord was pressed during an investigation, which is as it was
C38_PanelToggledInInvestigation ==
    /\ event = "keydown"
    /\ invoked = <<[fn |-> "togglePanel", args |-> << >>]>>
    /\ panelExpanded
    /\ currentSection = Investigation
    /\ activeInvestigation # << >>
    /\ contextStack # << >>

(***************************************************************************)
(* C39: the speech settings of the accessibility panel.                     *)
(***************************************************************************)
\* C39: once the speech rate or the speech volume has been set in the
\* accessibility panel, every announcement whose call gives no rate, or no
\* volume, of its own is spoken with the rate, or the volume, that was set
\* last.
C39_SettingsApplied ==
    \A k \in 1..Len(spoken) :
        LET utterance == SpeechSynthesisUtterance(spoken[k])
        IN /\ (speechRate # "undefined" /\ spoken[k].rate = "default") =>
                  utterance.rate = speechRate
           /\ (speechVolume # "undefined" /\ spoken[k].volume = "default") =>
                  utterance.volume = speechVolume

====
